---- MODULE Spec2Model ----
(***************************************************************************)
(* Power-mode and clock-sequencing state machine of the SKiM980A board     *)
(* (src/src/boards/SKiM980A/board.c).                                      *)
(*                                                                         *)
(* One main execution context (pc + stack of return labels), one timer     *)
(* interrupt (the calibration callback) and the clock / power hardware as  *)
(* an environment that sets the ready flags the code polls.  A spin-wait   *)
(* of the code is an action that is enabled only once the polled flag has  *)
(* the awaited value; while it has not, the context stutters at the wait.   *)
(***************************************************************************)
EXTENDS Naturals, Integers, Sequences, FiniteSets, TLC

(* ------------------------------ bounds -------------------------------- *)

\* Number of operations (API calls, critical sections opened) the application
\* performs in one power cycle.
MaxCalls == 3

\* Maximum nesting depth of application-level critical sections.
MaxNest == 2

MaxFaults == 1

(* ------------------------- program constants -------------------------- *)

\* TimerSetValue( &CalibrateSystemWakeupTimeTimer, 1000 )
CalibrationDuration == 1000

\* PRIMASK values: 0 = interrupts enabled, 1 = interrupts disabled.
IrqEnabled == 0
IrqDisabled == 1

\* #define ADC_MAX_VALUE 4095, and 1023 in the build with USE_ENCODER
ADC_MAX_VALUE == 4095
ADC_MAX_VALUE_ENCODER == 1023

\* #define ADC_VREF_BANDGAP 1224 (mV)
ADC_VREF_BANDGAP == 1224

\* battery thresholds (mV)
BATTERY_MAX_LEVEL == 3000
BATTERY_MIN_LEVEL == 2400
BATTERY_SHUTDOWN_LEVEL == 2300

\* The critical-section tokens (mask variables) the application owns.
Tokens == { "maskA", "maskB" }

VARIABLES
    McuInitialized,               \* static bool McuInitialized
    SystemWakeupTimeCalibrated,   \* static volatile bool SystemWakeupTimeCalibrated
    primask,                      \* the core's PRIMASK register
    pc,                           \* position of the main execution context
    stack,                        \* return labels of the main context
    isr,                          \* position of the timer interrupt handler
    rcc,                          \* clock tree / regulator registers
    per,                          \* peripherals and power-control settings
    timer,                        \* CalibrateSystemWakeupTimeTimer
    power,                        \* power mode of the core: Run, Sleep, Stop
    halStatus,                    \* status returned by the last HAL config call
    maskStop,                     \* local mask of LpmEnterStopMode
    maskExit,                     \* local mask of LpmExitStopMode
    tok,                          \* application-owned critical-section tokens
    csStack,                      \* open application critical sections
    calls,                        \* top-level calls made so far
    hist,                         \* history of the run (observations only)
    BatteryVoltage,               \* static uint16_t BatteryVoltage
    bat,                          \* the BoardGetBatteryLevel call and its inputs
    USE_FULL_ASSERT,              \* the build: is USE_FULL_ASSERT defined
    faults                        \* hardware failures reported so far

\* the battery measurement
battery == << BatteryVoltage, bat >>

\* the power-mode and clock state machine
board == << McuInitialized, SystemWakeupTimeCalibrated, primask, pc, stack, isr,
            rcc, per, timer, power, halStatus, maskStop, maskExit, tok, csStack,
            calls, hist, USE_FULL_ASSERT, faults >>

vars == << McuInitialized, SystemWakeupTimeCalibrated, primask, pc, stack, isr,
           rcc, per, timer, power, halStatus, maskStop, maskExit, tok, csStack,
           calls, hist, BatteryVoltage, bat, USE_FULL_ASSERT,
           faults >>

\* everything but the control of the main context
data == << McuInitialized, SystemWakeupTimeCalibrated, primask, isr, rcc, per,
           timer, power, halStatus, maskStop, maskExit, tok, csStack, calls, hist,
           battery, USE_FULL_ASSERT, faults >>

(* --------------------------- initial state ---------------------------- *)

\* Reset state of the clock tree: MSI is the system clock, HSE and PLL off.
RccReset ==
    [ vosf |-> FALSE, hseOn |-> FALSE, hseRdy |-> FALSE, lseOn |-> FALSE,
      pllOn |-> FALSE, pllRdy |-> FALSE, sw |-> "MSI", sws |-> "MSI",
      rtcClk |-> "none", systick |-> FALSE ]

PerReset ==
    [ hal |-> FALSE, uart |-> FALSE, rtc |-> FALSE, leds |-> FALSE,
      unusedIo |-> FALSE, offModeDisable |-> FALSE, adc |-> FALSE,
      spi |-> FALSE, radioIo |-> FALSE, radioDbg |-> FALSE, tcxo |-> FALSE,
      wdt |-> FALSE, oscPinsLp |-> FALSE, pvdOff |-> FALSE, cwuf |-> FALSE,
      ulp |-> FALSE, fwu |-> FALSE ]

TimerReset == [ inited |-> FALSE, value |-> 0, armed |-> FALSE ]

\* What a call finds on entry: the two flags, the clock tree, the peripherals,
\* the calibration timer and the numbers of cold configurations, calibrator
\* calls and lifecycle writes made so far.
SnapReset ==
    [ mcu |-> FALSE, cal |-> FALSE, rcc |-> RccReset, per |-> PerReset,
      timer |-> TimerReset, colds |-> 0, cals |-> 0, sets |-> 0 ]

HistInit ==
    [ initCalls |-> 0,        \* entries of BoardInitMcu
      path |-> "none",        \* branch taken by the current/last BoardInitMcu
      coldRuns |-> 0,         \* entries of SystemClockConfig
      resumeRuns |-> 0,       \* entries of SystemClockReConfig
      flagSets |-> 0,         \* executions of McuInitialized = true
      calCalls |-> 0,         \* entries of CalibrateSystemWakeupTime
      calEntryDone |-> FALSE, \* calibrated at entry of the current call
      calEntryOps |-> 0,      \* timer operations done before the current call
      timerOps |-> 0,         \* TimerInit + TimerSetValue + TimerStart executions
      timerStarts |-> 0,      \* TimerStart executions
      latencyRecs |-> 0,      \* RtcSetMcuWakeUpTime executions
      pllEnObs |-> "none",    \* was HSERDY set and seen when the PLL was enabled
      swObs |-> "none",       \* was PLLRDY set and seen when PLL was selected
      clkCfgAfter |-> "none", \* OscConfig status when ClockConfig ran
      seen |-> {},            \* flags the current resume run has observed set
      trapAt |-> "none",      \* first cold step of this run that failed
      stopOpen |-> FALSE,     \* an EnterStop from Initialized awaits its ExitStop
      stopMcu |-> FALSE,      \* McuInitialized at that EnterStop
      stopCal |-> FALSE,      \* SystemWakeupTimeCalibrated at that EnterStop
      stopCycles |-> 0,       \* completed EnterStop/ExitStop cycles
      stopped |-> FALSE,      \* the core really entered Stop since last resume
      csBefore |-> << >>,     \* PRIMASK before each open application Begin
      csClobbered |-> << >>,  \* that section's token was rewritten inside it
      csForced |-> << >>,     \* __enable_irq ran inside that section
      pairBefore |-> -1,      \* PRIMASK before the Begin of the pair last ended
      pairAfter |-> -1,       \* PRIMASK after that End (-1: no pair ended yet)
      pairClobbered |-> FALSE,
      pairForced |-> FALSE,
      pairDepth |-> 0,        \* nesting depth at which that pair ran
      pairsSeen |-> {},       \* entry states of the undisturbed pairs ended
      esBefore |-> 0,         \* PRIMASK before LpmEnterStopMode's Begin
      xsBefore |-> 0,         \* PRIMASK before LpmExitStopMode's Begin
      lphOpen |-> FALSE,      \* inside BoardLowPowerHandler's masked region
      steps |-> << >>,        \* steps run so far by the current BoardInitMcu
      stopSteps |-> << >>,    \* steps run so far by the current LpmEnterStopMode
      lowPower |-> "none",    \* mode LpmEnterLowPower chose in this handler run
      wake |-> "none",        \* what ended the halt of the current call
      bimEntry |-> SnapReset, \* state found by the current BoardInitMcu
      xsEntry |-> SnapReset,  \* state found by the current LpmExitStopMode
      slEntry |-> SnapReset,  \* state found by the current LpmEnterSleepMode
      afterXs |-> FALSE,      \* the last operation was a whole LpmExitStopMode
      xsRepeat |-> FALSE ]    \* the current LpmExitStopMode directly follows one

\* the battery measurement before any call; the ADC reading of channel 17 and
\* the build (with or without USE_ENCODER) are inputs of the call
BatReset ==
    [ pc |-> "idle", vref |-> 0, adcMax |-> ADC_MAX_VALUE, batteryLevel |-> 0 ]

InitBoard ==
    /\ USE_FULL_ASSERT \in BOOLEAN
    /\ faults = 0
    /\ McuInitialized = FALSE
    /\ SystemWakeupTimeCalibrated = FALSE
    /\ primask = IrqEnabled
    /\ pc = "idle"
    /\ stack = << >>
    /\ isr = "none"
    /\ rcc = RccReset
    /\ per = PerReset
    /\ timer = TimerReset
    /\ power = "Run"
    /\ halStatus = "HAL_OK"
    /\ maskStop = 0
    /\ maskExit = 0
    /\ tok = [ t \in Tokens |-> 0 ]
    /\ csStack = << >>
    /\ calls = 0
    /\ hist = HistInit

Init ==
    /\ InitBoard
    /\ BatteryVoltage = BATTERY_MAX_LEVEL
    /\ bat = BatReset

\* The state a call finds on entry.
Snap ==
    [ mcu |-> McuInitialized, cal |-> SystemWakeupTimeCalibrated, rcc |-> rcc,
      per |-> per, timer |-> timer, colds |-> hist.coldRuns,
      cals |-> hist.calCalls, sets |-> hist.flagSets ]

(* ----------------------------- control -------------------------------- *)

\* The main context executes only while the core runs and no handler is active.
Running == power = "Run" /\ isr = "none"

At(l) == Running /\ pc = l

Goto(l) == pc' = l /\ UNCHANGED stack

CallFn(entry, ret) == pc' = entry /\ stack' = << ret >> \o stack

Return == pc' = Head(stack) /\ stack' = Tail(stack)

\* variables no program step of the main context writes
env == << isr, power, calls, tok, csStack, battery, USE_FULL_ASSERT >>

base == << isr, power, calls, tok, csStack, battery, USE_FULL_ASSERT, faults >>

(* ------------------------- critical section --------------------------- *)

\* __set_PRIMASK( m ): only bit 0 of the written value is kept.
SetPrimask(m) == m % 2

\* a Begin that forgets to mask the interrupts
BoardCriticalSectionBegin_NoDisable(p) == << p, p >>

\* BoardCriticalSectionBegin( &mask ): *mask = __get_PRIMASK( ); __disable_irq( );
\* the pair << value stored in *mask, new PRIMASK >>.
BoardCriticalSectionBegin(p) == << p, IrqDisabled >>

\* an End that enables the interrupts whatever the token holds
BoardCriticalSectionEnd_AlwaysEnable(m) == IrqEnabled

\* BoardCriticalSectionEnd( &mask ): __set_PRIMASK( *mask ); the new PRIMASK.
BoardCriticalSectionEnd(m) == SetPrimask(m)

(* --------------------- status-checked cold steps ---------------------- *)

HalStatuses == { "HAL_OK", "HAL_ERROR", "HAL_TIMEOUT" }

\* The hardware of a run fails a status-checked call at most MaxFaults times;
\* a call that could have succeeded and reports a failure counts as one.
Fault(failed) ==
    /\ failed => faults < MaxFaults
    /\ faults' = IF failed THEN faults + 1 ELSE faults

\* HAL_RCC_OscConfig with HSE on, LSE on, PLL on (source HSE, x6 /3): the
\* oscillators are brought up in the order HSE, LSE, PLL, each waited for with
\* a timeout; `st` is the status returned and `upto` the last stage reached
\* when the call fails.
HAL_RCC_OscConfig(r, st, upto) ==
    IF st = "HAL_OK"
    THEN [ r EXCEPT !.hseOn = TRUE, !.hseRdy = TRUE, !.lseOn = TRUE,
                    !.pllOn = TRUE, !.pllRdy = TRUE ]
    ELSE CASE upto = "hse" -> [ r EXCEPT !.hseOn = TRUE ]
           [] upto = "lse" -> [ r EXCEPT !.hseOn = TRUE, !.hseRdy = TRUE ]
           [] upto = "pll" -> [ r EXCEPT !.hseOn = TRUE, !.hseRdy = TRUE,
                                         !.lseOn = TRUE, !.pllOn = TRUE ]

\* HAL_RCC_ClockConfig selecting PLLCLK as SYSCLK with all dividers 1: it
\* refuses (HAL_ERROR) when the PLL is not locked and otherwise switches and
\* waits for the switch status, with a timeout.
HAL_RCC_ClockConfig(r, st) ==
    IF st = "HAL_OK" THEN [ r EXCEPT !.sw = "PLL", !.sws = "PLL" ]
    ELSE IF r.pllRdy /\ st = "HAL_TIMEOUT" THEN [ r EXCEPT !.sw = "PLL" ]
    ELSE r

\* HAL_RCCEx_PeriphCLKConfig routing LSE to the RTC.
HAL_RCCEx_PeriphCLKConfig(r, st) ==
    IF st = "HAL_OK" THEN [ r EXCEPT !.rtcClk = "LSE" ] ELSE r

\* assert_param( expr ).  In a build with USE_FULL_ASSERT a false expression
\* calls assert_failed and a true one falls through to the next statement; in
\* a build without it the macro expands to nothing and assert_failed is not
\* compiled, so the next statement follows whatever the expression is.
assert_param(expr, next) ==
    IF USE_FULL_ASSERT /\ ~expr
    THEN CallFn("assert_failed", next)
    ELSE Goto(next)

\* assert_failed: printf, then while( 1 ) { }.
assert_failed ==
    /\ At("assert_failed")
    /\ pc' = "trap"
    /\ UNCHANGED << stack, data >>

(* -------------------- Clock Controller: cold sequence ----------------- *)

\* SystemClockConfig, entry: __HAL_RCC_PWR_CLK_ENABLE( );
\* __HAL_PWR_VOLTAGESCALING_CONFIG( PWR_REGULATOR_VOLTAGE_SCALE1 ): the
\* regulator may start settling, which raises VOSF.  The cold sequence never
\* polls the flag.
SCC_Entry ==
    /\ At("scc_entry")
    /\ \E settling \in BOOLEAN : rcc' = [ rcc EXCEPT !.vosf = settling ]
    /\ hist' = [ hist EXCEPT !.coldRuns = @ + 1 ]
    /\ Goto("scc_osc")
    /\ UNCHANGED << base, McuInitialized, SystemWakeupTimeCalibrated, primask,
                    per, timer, halStatus, maskStop, maskExit >>

\* HAL_RCC_OscConfig( &RCC_OscInitStruct )
SCC_OscConfig ==
    /\ At("scc_osc")
    /\ \E st \in HalStatuses, upto \in { "hse", "lse", "pll" } :
          /\ st = "HAL_OK" => upto = "pll"
          /\ st = "HAL_ERROR" => upto = "hse"
          /\ halStatus' = st
          /\ rcc' = HAL_RCC_OscConfig(rcc, st, upto)
          /\ Fault(st # "HAL_OK")
    /\ Goto("scc_osc_chk")
    /\ UNCHANGED << env, McuInitialized, SystemWakeupTimeCalibrated, primask,
                    per, timer, maskStop, maskExit, hist >>

\* if( HAL_RCC_OscConfig( ... ) != HAL_OK ) { assert_param( FAIL ); }
SCC_OscCheck ==
    /\ At("scc_osc_chk")
    /\ assert_param(halStatus = "HAL_OK", "scc_clk")
    /\ hist' = [ hist EXCEPT !.trapAt =
                   IF halStatus = "HAL_OK" \/ @ # "none" THEN @ ELSE "osc" ]
    /\ UNCHANGED << base, McuInitialized, SystemWakeupTimeCalibrated, primask,
                    rcc, per, timer, halStatus, maskStop, maskExit >>

\* HAL_RCC_ClockConfig( &RCC_ClkInitStruct, FLASH_LATENCY_1 )
SCC_ClockConfig ==
    /\ At("scc_clk")
    /\ \E st \in HalStatuses :
          /\ st = "HAL_OK" => rcc.pllRdy
          /\ st = "HAL_TIMEOUT" => rcc.pllRdy
          /\ halStatus' = st
          /\ rcc' = HAL_RCC_ClockConfig(rcc, st)
          /\ Fault(st # "HAL_OK" /\ rcc.pllRdy)
    /\ hist' = [ hist EXCEPT !.clkCfgAfter = halStatus ]
    /\ Goto("scc_clk_chk")
    /\ UNCHANGED << env, McuInitialized, SystemWakeupTimeCalibrated, primask,
                    per, timer, maskStop, maskExit >>

\* if( HAL_RCC_ClockConfig( ... ) != HAL_OK ) { assert_param( FAIL ); }
SCC_ClockCheck ==
    /\ At("scc_clk_chk")
    /\ assert_param(halStatus = "HAL_OK", "scc_periph")
    /\ hist' = [ hist EXCEPT !.trapAt =
                   IF halStatus = "HAL_OK" \/ @ # "none" THEN @ ELSE "clk" ]
    /\ UNCHANGED << base, McuInitialized, SystemWakeupTimeCalibrated, primask,
                    rcc, per, timer, halStatus, maskStop, maskExit >>

\* HAL_RCCEx_PeriphCLKConfig( &PeriphClkInit )
SCC_PeriphConfig ==
    /\ At("scc_periph")
    /\ \E st \in { "HAL_OK", "HAL_ERROR" } :
          /\ halStatus' = st
          /\ rcc' = HAL_RCCEx_PeriphCLKConfig(rcc, st)
          /\ Fault(st # "HAL_OK")
    /\ Goto("scc_periph_chk")
    /\ UNCHANGED << env, McuInitialized, SystemWakeupTimeCalibrated, primask,
                    per, timer, maskStop, maskExit, hist >>

\* if( HAL_RCCEx_PeriphCLKConfig( ... ) != HAL_OK ) { assert_param( FAIL ); }
SCC_PeriphCheck ==
    /\ At("scc_periph_chk")
    /\ assert_param(halStatus = "HAL_OK", "scc_systick")
    /\ hist' = [ hist EXCEPT !.trapAt =
                   IF halStatus = "HAL_OK" \/ @ # "none" THEN @ ELSE "periph" ]
    /\ UNCHANGED << base, McuInitialized, SystemWakeupTimeCalibrated, primask,
                    rcc, per, timer, halStatus, maskStop, maskExit >>

\* HAL_SYSTICK_Config, HAL_SYSTICK_CLKSourceConfig, HAL_NVIC_SetPriority; return.
SCC_SysTick ==
    /\ At("scc_systick")
    /\ rcc' = [ rcc EXCEPT !.systick = TRUE ]
    /\ halStatus' = "HAL_OK"
    /\ hist' = [ hist EXCEPT !.clkCfgAfter = "none", !.trapAt = "none" ]
    /\ Return
    /\ UNCHANGED << base, McuInitialized, SystemWakeupTimeCalibrated, primask,
                    per, timer, maskStop, maskExit >>

(* ------------------- Clock Controller: resume sequence ---------------- *)

\* SystemClockReConfig, entry: power clock on, voltage scaling range 1; the
\* regulator raises VOSF while it settles, if the range changes at all.
RC_Entry ==
    /\ At("rc_entry")
    /\ \E settling \in BOOLEAN : rcc' = [ rcc EXCEPT !.vosf = settling ]
    /\ hist' = [ hist EXCEPT !.resumeRuns = @ + 1, !.seen = {} ]
    /\ Goto("rc_wait_vos")
    /\ UNCHANGED << base, McuInitialized, SystemWakeupTimeCalibrated, primask,
                    per, timer, halStatus, maskStop, maskExit >>

\* while( __HAL_PWR_GET_FLAG( PWR_FLAG_VOS ) != RESET );
RC_WaitVos ==
    /\ At("rc_wait_vos")
    /\ ~rcc.vosf
    /\ hist' = [ hist EXCEPT !.seen = @ \cup { "vos" } ]
    /\ Goto("rc_hse_on")
    /\ UNCHANGED << base, McuInitialized, SystemWakeupTimeCalibrated, primask,
                    rcc, per, timer, halStatus, maskStop, maskExit >>

\* __HAL_RCC_HSE_CONFIG( RCC_HSE_ON )
RC_HseOn ==
    /\ At("rc_hse_on")
    /\ rcc' = [ rcc EXCEPT !.hseOn = TRUE ]
    /\ Goto("rc_wait_hse")
    /\ UNCHANGED << base, McuInitialized, SystemWakeupTimeCalibrated, primask,
                    per, timer, halStatus, maskStop, maskExit, hist >>

\* a resume sequence that does not wait for the main oscillator
RC_WaitHse_NoWait ==
    /\ At("rc_wait_hse")
    /\ Goto("rc_pll_cfg")
    /\ UNCHANGED data

\* while( __HAL_RCC_GET_FLAG( RCC_FLAG_HSERDY ) == RESET );
RC_WaitHse ==
    /\ At("rc_wait_hse")
    /\ rcc.hseRdy
    /\ hist' = [ hist EXCEPT !.seen = @ \cup { "hse" } ]
    /\ Goto("rc_pll_cfg")
    /\ UNCHANGED << base, McuInitialized, SystemWakeupTimeCalibrated, primask,
                    rcc, per, timer, halStatus, maskStop, maskExit >>

\* __HAL_RCC_PLL_CONFIG( RCC_PLLSOURCE_HSE, RCC_PLL_MUL6, RCC_PLL_DIV3 ): the
\* same source and ratio as the cold sequence; no flag changes.
RC_PllConfig ==
    /\ At("rc_pll_cfg")
    /\ Goto("rc_pll_en")
    /\ UNCHANGED data

\* __HAL_RCC_PLL_ENABLE( )
RC_PllEnable ==
    /\ At("rc_pll_en")
    /\ rcc' = [ rcc EXCEPT !.pllOn = TRUE ]
    /\ hist' = [ hist EXCEPT !.pllEnObs =
                   IF "hse" \in hist.seen /\ rcc.hseRdy THEN "yes" ELSE "no" ]
    /\ Goto("rc_wait_pll")
    /\ UNCHANGED << base, McuInitialized, SystemWakeupTimeCalibrated, primask,
                    per, timer, halStatus, maskStop, maskExit >>

\* a wait for the PLL that gives up
RC_WaitPll_Timeout ==
    /\ At("rc_wait_pll")
    /\ hist' = [ hist EXCEPT !.seen = IF rcc.pllRdy THEN @ \cup { "pll" } ELSE @ ]
    /\ Goto("rc_sysclk")
    /\ UNCHANGED << base, McuInitialized, SystemWakeupTimeCalibrated, primask,
                    rcc, per, timer, halStatus, maskStop, maskExit >>

\* while( __HAL_RCC_GET_FLAG( RCC_FLAG_PLLRDY ) == RESET );
RC_WaitPll ==
    /\ At("rc_wait_pll")
    /\ rcc.pllRdy
    /\ hist' = [ hist EXCEPT !.seen = @ \cup { "pll" } ]
    /\ Goto("rc_sysclk")
    /\ UNCHANGED << base, McuInitialized, SystemWakeupTimeCalibrated, primask,
                    rcc, per, timer, halStatus, maskStop, maskExit >>

\* __HAL_RCC_SYSCLK_CONFIG( RCC_SYSCLKSOURCE_PLLCLK )
RC_SelectPll ==
    /\ At("rc_sysclk")
    /\ rcc' = [ rcc EXCEPT !.sw = "PLL" ]
    /\ hist' = [ hist EXCEPT !.swObs =
                   IF "pll" \in hist.seen /\ rcc.pllRdy THEN "yes" ELSE "no" ]
    /\ Goto("rc_wait_sws")
    /\ UNCHANGED << base, McuInitialized, SystemWakeupTimeCalibrated, primask,
                    per, timer, halStatus, maskStop, maskExit >>

\* a resume sequence that returns without waiting for the switch
RC_WaitSws_NoWait ==
    /\ At("rc_wait_sws")
    /\ Goto("rc_ret")
    /\ UNCHANGED data

\* while( __HAL_RCC_GET_SYSCLK_SOURCE( ) != RCC_SYSCLKSOURCE_STATUS_PLLCLK );
RC_WaitSws ==
    /\ At("rc_wait_sws")
    /\ rcc.sws = "PLL"
    /\ hist' = [ hist EXCEPT !.seen = @ \cup { "sws" } ]
    /\ Goto("rc_ret")
    /\ UNCHANGED << base, McuInitialized, SystemWakeupTimeCalibrated, primask,
                    rcc, per, timer, halStatus, maskStop, maskExit >>

\* return of SystemClockReConfig
RC_Return ==
    /\ At("rc_ret")
    /\ Return
    /\ UNCHANGED data

(* ------------------------ clock / power hardware ---------------------- *)

\* The regulator has settled: VOSF is cleared by hardware.
HwVosReady ==
    /\ rcc.vosf
    /\ rcc' = [ rcc EXCEPT !.vosf = FALSE ]
    /\ UNCHANGED << pc, stack, McuInitialized, SystemWakeupTimeCalibrated,
                    primask, isr, per, timer, power, halStatus, maskStop,
                    maskExit, tok, csStack, calls, hist >>
    /\ UNCHANGED << battery, USE_FULL_ASSERT, faults >>

\* The enabled main oscillator has stabilised: HSERDY is set by hardware.
HwHseReady ==
    /\ power = "Run"
    /\ rcc.hseOn /\ ~rcc.hseRdy
    /\ rcc' = [ rcc EXCEPT !.hseRdy = TRUE ]
    /\ UNCHANGED << pc, stack, McuInitialized, SystemWakeupTimeCalibrated,
                    primask, isr, per, timer, power, halStatus, maskStop,
                    maskExit, tok, csStack, calls, hist >>
    /\ UNCHANGED << battery, USE_FULL_ASSERT, faults >>

\* The enabled PLL has locked on its ready source: PLLRDY is set by hardware.
HwPllLock ==
    /\ power = "Run"
    /\ rcc.pllOn /\ rcc.hseRdy /\ ~rcc.pllRdy
    /\ rcc' = [ rcc EXCEPT !.pllRdy = TRUE ]
    /\ UNCHANGED << pc, stack, McuInitialized, SystemWakeupTimeCalibrated,
                    primask, isr, per, timer, power, halStatus, maskStop,
                    maskExit, tok, csStack, calls, hist >>
    /\ UNCHANGED << battery, USE_FULL_ASSERT, faults >>

\* The clock switch completes: SWS follows SW once the selected source is ready.
HwClockSwitch ==
    /\ power = "Run"
    /\ rcc.sw = "PLL" /\ rcc.sws # "PLL" /\ rcc.pllRdy
    /\ rcc' = [ rcc EXCEPT !.sws = "PLL" ]
    /\ UNCHANGED << pc, stack, McuInitialized, SystemWakeupTimeCalibrated,
                    primask, isr, per, timer, power, halStatus, maskStop,
                    maskExit, tok, csStack, calls, hist >>
    /\ UNCHANGED << battery, USE_FULL_ASSERT, faults >>

\* Stop mode switches HSE and PLL off; on wake-up MSI is the system clock.
StopClockReset(r) ==
    [ r EXCEPT !.hseOn = FALSE, !.hseRdy = FALSE, !.pllOn = FALSE,
               !.pllRdy = FALSE, !.sw = "MSI", !.sws = "MSI" ]

\* A wake-up event (external interrupt or RTC alarm) ends Sleep or Stop.
HwWake ==
    /\ power \in { "Sleep", "Stop" }
    /\ power' = "Run"
    /\ hist' = [ hist EXCEPT !.wake = "event" ]
    /\ UNCHANGED << pc, stack, McuInitialized, SystemWakeupTimeCalibrated,
                    primask, isr, rcc, per, timer, halStatus, maskStop,
                    maskExit, tok, csStack, calls >>
    /\ UNCHANGED << battery, USE_FULL_ASSERT, faults >>

(* ----------------------- Wake-Latency Calibrator ---------------------- *)

\* a calibrator without its guard
CAL_Entry_NoGuard ==
    /\ At("cal_entry")
    /\ hist' = [ hist EXCEPT !.calCalls = @ + 1,
                             !.calEntryDone = SystemWakeupTimeCalibrated,
                             !.calEntryOps = hist.timerOps ]
    /\ Goto("cal_timer_init")
    /\ UNCHANGED << base, McuInitialized, SystemWakeupTimeCalibrated, primask,
                    rcc, per, timer, halStatus, maskStop, maskExit >>

\* CalibrateSystemWakeupTime: if( SystemWakeupTimeCalibrated == false )
CAL_Entry ==
    /\ At("cal_entry")
    /\ hist' = [ hist EXCEPT !.calCalls = @ + 1,
                             !.calEntryDone = SystemWakeupTimeCalibrated,
                             !.calEntryOps = hist.timerOps ]
    /\ IF SystemWakeupTimeCalibrated = FALSE
       THEN Goto("cal_timer_init")
       ELSE Goto("cal_ret")
    /\ UNCHANGED << base, McuInitialized, SystemWakeupTimeCalibrated, primask,
                    rcc, per, timer, halStatus, maskStop, maskExit >>

\* TimerInit( &CalibrateSystemWakeupTimeTimer, OnCalibrateSystemWakeupTimeTimerEvent )
CAL_TimerInit ==
    /\ At("cal_timer_init")
    /\ timer' = [ inited |-> TRUE, value |-> 0, armed |-> FALSE ]
    /\ hist' = [ hist EXCEPT !.timerOps = @ + 1 ]
    /\ Goto("cal_timer_set")
    /\ UNCHANGED << base, McuInitialized, SystemWakeupTimeCalibrated, primask,
                    rcc, per, halStatus, maskStop, maskExit >>

\* TimerSetValue( &CalibrateSystemWakeupTimeTimer, 1000 )
CAL_TimerSetValue ==
    /\ At("cal_timer_set")
    /\ timer' = [ timer EXCEPT !.value = CalibrationDuration ]
    /\ hist' = [ hist EXCEPT !.timerOps = @ + 1 ]
    /\ Goto("cal_timer_start")
    /\ UNCHANGED << base, McuInitialized, SystemWakeupTimeCalibrated, primask,
                    rcc, per, halStatus, maskStop, maskExit >>

\* TimerStart( &CalibrateSystemWakeupTimeTimer )
CAL_TimerStart ==
    /\ At("cal_timer_start")
    /\ timer' = [ timer EXCEPT !.armed = TRUE ]
    /\ hist' = [ hist EXCEPT !.timerOps = @ + 1, !.timerStarts = @ + 1 ]
    /\ Goto("cal_wait")
    /\ UNCHANGED << base, McuInitialized, SystemWakeupTimeCalibrated, primask,
                    rcc, per, halStatus, maskStop, maskExit >>

\* while( SystemWakeupTimeCalibrated == false ) { }
CAL_Wait ==
    /\ At("cal_wait")
    /\ SystemWakeupTimeCalibrated
    /\ Goto("cal_ret")
    /\ UNCHANGED data

\* return of CalibrateSystemWakeupTime
CAL_Return ==
    /\ At("cal_ret")
    /\ Return
    /\ UNCHANGED data

\* The one-shot timer expires: its interrupt is taken when interrupts are
\* enabled and runs the registered callback.
TimerIrq ==
    /\ power = "Run"
    /\ isr = "none"
    /\ timer.armed
    /\ primask = IrqEnabled
    /\ timer' = [ timer EXCEPT !.armed = FALSE ]
    /\ isr' = "cb_rtc"
    /\ UNCHANGED << pc, stack, McuInitialized, SystemWakeupTimeCalibrated,
                    primask, rcc, per, power, halStatus, maskStop, maskExit,
                    tok, csStack, calls, hist >>
    /\ UNCHANGED << battery, USE_FULL_ASSERT, faults >>

\* a callback that sets the flag before it records the latency
CB_RtcSetMcuWakeUpTime_FlagFirst ==
    /\ isr = "cb_rtc"
    /\ SystemWakeupTimeCalibrated' = TRUE
    /\ isr' = "cb_flag"
    /\ UNCHANGED << pc, stack, McuInitialized, primask, rcc, per, timer, power,
                    halStatus, maskStop, maskExit, tok, csStack, calls, hist >>
    /\ UNCHANGED << battery, USE_FULL_ASSERT, faults >>

\* OnCalibrateSystemWakeupTimeTimerEvent: RtcSetMcuWakeUpTime( );
CB_RtcSetMcuWakeUpTime ==
    /\ isr = "cb_rtc"
    /\ hist' = [ hist EXCEPT !.latencyRecs = @ + 1 ]
    /\ isr' = "cb_flag"
    /\ UNCHANGED << pc, stack, McuInitialized, SystemWakeupTimeCalibrated,
                    primask, rcc, per, timer, power, halStatus, maskStop,
                    maskExit, tok, csStack, calls >>
    /\ UNCHANGED << battery, USE_FULL_ASSERT, faults >>

\* OnCalibrateSystemWakeupTimeTimerEvent: SystemWakeupTimeCalibrated = true;
CB_SetCalibrated ==
    /\ isr = "cb_flag"
    /\ SystemWakeupTimeCalibrated' = TRUE
    /\ isr' = "none"
    /\ UNCHANGED << pc, stack, McuInitialized, primask, rcc, per, timer, power,
                    halStatus, maskStop, maskExit, tok, csStack, calls, hist >>
    /\ UNCHANGED << battery, USE_FULL_ASSERT, faults >>

(* ------------------ Power-Mode Sequencer: BoardInitMcu ---------------- *)

\* uint8_t GetBoardPowerSource( void ) { return BATTERY_POWER; }
GetBoardPowerSource == "BATTERY_POWER"

\* a BoardInitMcu that always takes the cold branch
BIM_Entry_AlwaysCold ==
    /\ At("bim_entry")
    /\ hist' = [ hist EXCEPT !.initCalls = @ + 1, !.path = "cold",
                             !.steps = << >>, !.bimEntry = Snap ]
    /\ Goto("bim_hal_init")
    /\ UNCHANGED << base, McuInitialized, SystemWakeupTimeCalibrated, primask,
                    rcc, per, timer, halStatus, maskStop, maskExit >>

\* BoardInitMcu: if( McuInitialized == false ) ... else SystemClockReConfig( );
BIM_Entry ==
    /\ At("bim_entry")
    /\ IF McuInitialized = FALSE
       THEN /\ hist' = [ hist EXCEPT !.initCalls = @ + 1, !.path = "cold",
                                     !.steps = << >>, !.bimEntry = Snap ]
            /\ Goto("bim_hal_init")
       ELSE /\ hist' = [ hist EXCEPT !.initCalls = @ + 1, !.path = "resume",
                                     !.steps = << "reclock" >>,
                                     !.bimEntry = Snap ]
            /\ CallFn("rc_entry", "bim_adc")
    /\ UNCHANGED << base, McuInitialized, SystemWakeupTimeCalibrated, primask,
                    rcc, per, timer, halStatus, maskStop, maskExit >>

\* HAL_Init( ) (which runs HAL_MspInit: PVD off, ultra-low-power and fast
\* wake-up on), LED 1, then SystemClockConfig( ).
BIM_HalInit ==
    /\ At("bim_hal_init")
    /\ hist' = [ hist EXCEPT !.steps = @ \o << "hal", "clock" >> ]
    /\ per' = [ per EXCEPT !.hal = TRUE, !.pvdOff = TRUE, !.ulp = TRUE,
                           !.fwu = TRUE ]
    /\ CallFn("scc_entry", "bim_uart")
    /\ UNCHANGED << base, McuInitialized, SystemWakeupTimeCalibrated, primask,
                    rcc, timer, halStatus, maskStop, maskExit >>

\* FifoInit x2, UartInit, UartConfig
BIM_Uart ==
    /\ At("bim_uart")
    /\ hist' = [ hist EXCEPT !.steps = @ \o << "uart" >> ]
    /\ per' = [ per EXCEPT !.uart = TRUE ]
    /\ Goto("bim_rtc")
    /\ UNCHANGED << base, McuInitialized, SystemWakeupTimeCalibrated, primask,
                    rcc, timer, halStatus, maskStop, maskExit >>

\* a cold branch without the real-time clock
BIM_Rtc_Skipped ==
    /\ At("bim_rtc")
    /\ hist' = [ hist EXCEPT !.steps = @ \o << "rtc" >> ]
    /\ Goto("bim_leds")
    /\ UNCHANGED << base, McuInitialized, SystemWakeupTimeCalibrated, primask,
                    rcc, per, timer, halStatus, maskStop, maskExit >>

\* RtcInit( )
BIM_Rtc ==
    /\ At("bim_rtc")
    /\ hist' = [ hist EXCEPT !.steps = @ \o << "rtc" >> ]
    /\ per' = [ per EXCEPT !.rtc = TRUE ]
    /\ Goto("bim_leds")
    /\ UNCHANGED << base, McuInitialized, SystemWakeupTimeCalibrated, primask,
                    rcc, timer, halStatus, maskStop, maskExit >>

\* LEDs 1..4
BIM_Leds ==
    /\ At("bim_leds")
    /\ hist' = [ hist EXCEPT !.steps = @ \o << "leds" >> ]
    /\ per' = [ per EXCEPT !.leds = TRUE ]
    /\ Goto("bim_unused")
    /\ UNCHANGED << base, McuInitialized, SystemWakeupTimeCalibrated, primask,
                    rcc, timer, halStatus, maskStop, maskExit >>

\* BoardUnusedIoInit( )
BIM_UnusedIo ==
    /\ At("bim_unused")
    /\ hist' = [ hist EXCEPT !.steps = @ \o << "unusedIo" >> ]
    /\ per' = [ per EXCEPT !.unusedIo = TRUE ]
    /\ Goto("bim_offmode")
    /\ UNCHANGED << base, McuInitialized, SystemWakeupTimeCalibrated, primask,
                    rcc, timer, halStatus, maskStop, maskExit >>

\* a cold branch that leaves the OFF mode allowed
BIM_OffMode_Skipped ==
    /\ At("bim_offmode")
    /\ Goto("bim_adc")
    /\ UNCHANGED data

\* if( GetBoardPowerSource( ) == BATTERY_POWER ) LpmSetOffMode( LPM_APPLI_ID, LPM_DISABLE );
BIM_OffMode ==
    /\ At("bim_offmode")
    /\ IF GetBoardPowerSource = "BATTERY_POWER"
       THEN /\ per' = [ per EXCEPT !.offModeDisable = TRUE ]
            /\ hist' = [ hist EXCEPT !.steps = @ \o << "offMode" >> ]
       ELSE UNCHANGED << per, hist >>
    /\ Goto("bim_adc")
    /\ UNCHANGED << base, McuInitialized, SystemWakeupTimeCalibrated, primask,
                    rcc, timer, halStatus, maskStop, maskExit >>

\* AdcInit( &Adc, POTI )
BIM_Adc ==
    /\ At("bim_adc")
    /\ hist' = [ hist EXCEPT !.steps = @ \o << "adc" >> ]
    /\ per' = [ per EXCEPT !.adc = TRUE ]
    /\ Goto("bim_spi")
    /\ UNCHANGED << base, McuInitialized, SystemWakeupTimeCalibrated, primask,
                    rcc, timer, halStatus, maskStop, maskExit >>

\* SpiInit( &SX1272.Spi, ... )
BIM_Spi ==
    /\ At("bim_spi")
    /\ hist' = [ hist EXCEPT !.steps = @ \o << "spi" >> ]
    /\ per' = [ per EXCEPT !.spi = TRUE ]
    /\ Goto("bim_radio_io")
    /\ UNCHANGED << base, McuInitialized, SystemWakeupTimeCalibrated, primask,
                    rcc, timer, halStatus, maskStop, maskExit >>

\* a rebuild that leaves the radio I/O down
BIM_RadioIo_Skipped ==
    /\ At("bim_radio_io")
    /\ Goto("bim_check")
    /\ UNCHANGED data

\* SX1272IoInit( )
BIM_RadioIo ==
    /\ At("bim_radio_io")
    /\ hist' = [ hist EXCEPT !.steps = @ \o << "radioIo" >> ]
    /\ per' = [ per EXCEPT !.radioIo = TRUE ]
    /\ Goto("bim_check")
    /\ UNCHANGED << base, McuInitialized, SystemWakeupTimeCalibrated, primask,
                    rcc, timer, halStatus, maskStop, maskExit >>

\* a BoardInitMcu whose second block runs on every call
BIM_Check_AlwaysFirst ==
    /\ At("bim_check")
    /\ Goto("bim_set")
    /\ UNCHANGED data

\* second if( McuInitialized == false )
BIM_Check ==
    /\ At("bim_check")
    /\ IF McuInitialized = FALSE THEN Goto("bim_set") ELSE Goto("bim_wdt")
    /\ UNCHANGED data

\* a first boot that forgets to set the lifecycle flag
BIM_SetInitialized_Forgotten ==
    /\ At("bim_set")
    /\ Goto("bim_dbg")
    /\ UNCHANGED data

\* McuInitialized = true;
BIM_SetInitialized ==
    /\ At("bim_set")
    /\ McuInitialized' = TRUE
    /\ hist' = [ hist EXCEPT !.flagSets = @ + 1, !.steps = @ \o << "set" >> ]
    /\ Goto("bim_dbg")
    /\ UNCHANGED << base, SystemWakeupTimeCalibrated, primask, rcc, per, timer,
                    halStatus, maskStop, maskExit >>

\* SX1272IoDbgInit( )
BIM_Dbg ==
    /\ At("bim_dbg")
    /\ hist' = [ hist EXCEPT !.steps = @ \o << "radioDbg" >> ]
    /\ per' = [ per EXCEPT !.radioDbg = TRUE ]
    /\ Goto("bim_tcxo")
    /\ UNCHANGED << base, McuInitialized, SystemWakeupTimeCalibrated, primask,
                    rcc, timer, halStatus, maskStop, maskExit >>

\* SX1272IoTcxoInit( )
BIM_Tcxo ==
    /\ At("bim_tcxo")
    /\ hist' = [ hist EXCEPT !.steps = @ \o << "tcxo" >> ]
    /\ per' = [ per EXCEPT !.tcxo = TRUE ]
    /\ Goto("bim_cal")
    /\ UNCHANGED << base, McuInitialized, SystemWakeupTimeCalibrated, primask,
                    rcc, timer, halStatus, maskStop, maskExit >>

\* if( GetBoardPowerSource( ) == BATTERY_POWER ) CalibrateSystemWakeupTime( );
BIM_Calibrate ==
    /\ At("bim_cal")
    /\ IF GetBoardPowerSource = "BATTERY_POWER"
       THEN /\ CallFn("cal_entry", "bim_wdt")
            /\ hist' = [ hist EXCEPT !.steps = @ \o << "calibrate" >> ]
       ELSE /\ Goto("bim_wdt")
            /\ UNCHANGED hist
    /\ UNCHANGED << base, McuInitialized, SystemWakeupTimeCalibrated, primask,
                    rcc, per, timer, halStatus, maskStop, maskExit >>

\* WdtInit( &Wdt, WDT_IWDG )
BIM_Wdt ==
    /\ At("bim_wdt")
    /\ hist' = [ hist EXCEPT !.steps = @ \o << "wdt" >> ]
    /\ per' = [ per EXCEPT !.wdt = TRUE ]
    /\ Goto("bim_ret")
    /\ UNCHANGED << base, McuInitialized, SystemWakeupTimeCalibrated, primask,
                    rcc, timer, halStatus, maskStop, maskExit >>

\* return of BoardInitMcu
BIM_Return ==
    /\ At("bim_ret")
    /\ hist' = [ hist EXCEPT !.steps = << >>, !.bimEntry = SnapReset ]
    /\ Return
    /\ UNCHANGED << base, McuInitialized, SystemWakeupTimeCalibrated, primask,
                    rcc, per, timer, halStatus, maskStop, maskExit >>

(* --------------------------- BoardResetMcu ---------------------------- *)

\* CRITICAL_SECTION_BEGIN( ) of BoardResetMcu: interrupts are masked; the
\* saved mask is a local nothing reads again.
BRM_Begin ==
    /\ At("brm_begin")
    /\ primask' = BoardCriticalSectionBegin(primask)[2]
    /\ Goto("brm_reset")
    /\ UNCHANGED << base, McuInitialized, SystemWakeupTimeCalibrated, rcc, per,
                    timer, halStatus, maskStop, maskExit, hist >>

\* NVIC_SystemReset( ) never returns: the core and the peripherals take their
\* reset values, the start-up code initialises the statics again and the
\* application starts over.  A new power cycle begins, so the record of the
\* cycle starts empty; only the bound on the number of calls goes on.
BRM_Reset ==
    /\ At("brm_reset")
    /\ McuInitialized' = FALSE
    /\ SystemWakeupTimeCalibrated' = FALSE
    /\ primask' = IrqEnabled
    /\ pc' = "idle"
    /\ stack' = << >>
    /\ rcc' = RccReset
    /\ per' = PerReset
    /\ timer' = TimerReset
    /\ halStatus' = "HAL_OK"
    /\ maskStop' = 0
    /\ maskExit' = 0
    /\ tok' = [ t \in Tokens |-> 0 ]
    /\ csStack' = << >>
    /\ hist' = HistInit
    /\ BatteryVoltage' = BATTERY_MAX_LEVEL
    /\ UNCHANGED << isr, power, calls, bat, USE_FULL_ASSERT, faults >>

(* ----------------- Power-Mode Sequencer: BoardDeInitMcu --------------- *)

\* The log of the running LpmEnterStopMode takes the steps of the
\* BoardDeInitMcu it calls; a BoardDeInitMcu the application calls itself
\* belongs to no LpmEnterStopMode.
StopLog(s) ==
    IF Head(stack) = "es_pvd" THEN hist.stopSteps \o s ELSE hist.stopSteps

\* AdcDeInit( &Adc )
BDM_Adc ==
    /\ At("bdm_adc")
    /\ per' = [ per EXCEPT !.adc = FALSE ]
    /\ hist' = [ hist EXCEPT !.stopSteps = StopLog(<< "adc" >>) ]
    /\ Goto("bdm_radio")
    /\ UNCHANGED << base, McuInitialized, SystemWakeupTimeCalibrated, primask,
                    rcc, timer, halStatus, maskStop, maskExit >>

\* SpiDeInit( &SX1272.Spi ); SX1272IoDeInit( );
BDM_Radio ==
    /\ At("bdm_radio")
    /\ per' = [ per EXCEPT !.spi = FALSE, !.radioIo = FALSE ]
    /\ hist' = [ hist EXCEPT !.stopSteps = StopLog(<< "spi", "radioIo" >>) ]
    /\ Goto("bdm_pins")
    /\ UNCHANGED << base, McuInitialized, SystemWakeupTimeCalibrated, primask,
                    rcc, timer, halStatus, maskStop, maskExit >>

\* OSC_HSE_IN/OUT analog, OSC_LSE_IN/OUT input pull-down; return.
BDM_Pins ==
    /\ At("bdm_pins")
    /\ per' = [ per EXCEPT !.oscPinsLp = TRUE ]
    /\ hist' = [ hist EXCEPT !.stopSteps = StopLog(<< "oscPins" >>) ]
    /\ Return
    /\ UNCHANGED << base, McuInitialized, SystemWakeupTimeCalibrated, primask,
                    rcc, timer, halStatus, maskStop, maskExit >>

(* ---------------- Power-Mode Sequencer: LpmEnterStopMode -------------- *)

\* CRITICAL_SECTION_BEGIN( ) of LpmEnterStopMode, on its local mask.
ES_Begin ==
    /\ At("es_begin")
    /\ maskStop' = BoardCriticalSectionBegin(primask)[1]
    /\ primask' = BoardCriticalSectionBegin(primask)[2]
    /\ hist' = [ hist EXCEPT !.esBefore = primask,
                             !.stopOpen = McuInitialized,
                             !.stopMcu = McuInitialized,
                             !.stopCal = SystemWakeupTimeCalibrated,
                             !.stopped = FALSE,
                             !.stopSteps = << "begin" >>,
                             !.wake = "none" ]
    /\ Goto("es_deinit")
    /\ UNCHANGED << base, McuInitialized, SystemWakeupTimeCalibrated, rcc, per,
                    timer, halStatus, maskExit >>

\* an LpmEnterStopMode that leaves the peripherals up
ES_DeInit_Skipped ==
    /\ At("es_deinit")
    /\ Goto("es_pvd")
    /\ UNCHANGED data

\* BoardDeInitMcu( )
ES_DeInit ==
    /\ At("es_deinit")
    /\ CallFn("bdm_adc", "es_pvd")
    /\ UNCHANGED data

\* an LpmEnterStopMode whose critical section ends after BoardDeInitMcu
ES_DisablePvd_AfterEnd ==
    /\ At("es_pvd")
    /\ primask' = BoardCriticalSectionEnd(maskStop)
    /\ per' = [ per EXCEPT !.pvdOff = TRUE ]
    /\ hist' = [ hist EXCEPT !.stopSteps = @ \o << "end", "pvd" >> ]
    /\ Goto("es_cwuf")
    /\ UNCHANGED << base, McuInitialized, SystemWakeupTimeCalibrated, rcc,
                    timer, halStatus, maskStop, maskExit >>

\* HAL_PWR_DisablePVD( )
ES_DisablePvd ==
    /\ At("es_pvd")
    /\ per' = [ per EXCEPT !.pvdOff = TRUE ]
    /\ hist' = [ hist EXCEPT !.stopSteps = @ \o << "pvd" >> ]
    /\ Goto("es_cwuf")
    /\ UNCHANGED << base, McuInitialized, SystemWakeupTimeCalibrated, primask,
                    rcc, timer, halStatus, maskStop, maskExit >>

\* SET_BIT( PWR->CR, PWR_CR_CWUF )
ES_ClearWakeFlag ==
    /\ At("es_cwuf")
    /\ per' = [ per EXCEPT !.cwuf = TRUE ]
    /\ hist' = [ hist EXCEPT !.stopSteps = @ \o << "cwuf" >> ]
    /\ Goto("es_ulp")
    /\ UNCHANGED << base, McuInitialized, SystemWakeupTimeCalibrated, primask,
                    rcc, timer, halStatus, maskStop, maskExit >>

\* HAL_PWREx_EnableUltraLowPower( )
ES_UltraLowPower ==
    /\ At("es_ulp")
    /\ per' = [ per EXCEPT !.ulp = TRUE ]
    /\ hist' = [ hist EXCEPT !.stopSteps = @ \o << "ulp" >> ]
    /\ Goto("es_fwu")
    /\ UNCHANGED << base, McuInitialized, SystemWakeupTimeCalibrated, primask,
                    rcc, timer, halStatus, maskStop, maskExit >>

\* HAL_PWREx_EnableFastWakeUp( )
ES_FastWakeUp ==
    /\ At("es_fwu")
    /\ per' = [ per EXCEPT !.fwu = TRUE ]
    /\ hist' = [ hist EXCEPT !.stopSteps = @ \o << "fwu" >> ]
    /\ Goto("es_end")
    /\ UNCHANGED << base, McuInitialized, SystemWakeupTimeCalibrated, primask,
                    rcc, timer, halStatus, maskStop, maskExit >>

\* CRITICAL_SECTION_END( ) of LpmEnterStopMode
ES_End ==
    /\ At("es_end")
    /\ primask' = BoardCriticalSectionEnd(maskStop)
    /\ hist' = [ hist EXCEPT !.stopSteps = @ \o << "end" >> ]
    /\ Goto("es_halt")
    /\ UNCHANGED << base, McuInitialized, SystemWakeupTimeCalibrated, rcc, per,
                    timer, halStatus, maskStop, maskExit >>

\* a halt that returns at once although nothing is pending
ES_Halt_NoWait ==
    /\ At("es_halt")
    /\ hist' = [ hist EXCEPT !.stopSteps = @ \o << "halt" >>, !.wake = "none" ]
    /\ Goto("es_ret")
    /\ UNCHANGED << base, McuInitialized, SystemWakeupTimeCalibrated, primask,
                    rcc, per, timer, halStatus, maskStop, maskExit >>

\* HAL_PWR_EnterSTOPMode( PWR_LOWPOWERREGULATOR_ON, PWR_STOPENTRY_WFI ): the
\* core stops until a wake-up event, unless an interrupt is already pending,
\* in which case WFI falls through and nothing is powered down.
ES_Halt ==
    /\ At("es_halt")
    /\ \E pending \in BOOLEAN :
          IF pending
          THEN /\ UNCHANGED << power, rcc, per >>
               /\ hist' = [ hist EXCEPT !.stopSteps = @ \o << "halt" >>,
                                        !.wake = "pending" ]
          ELSE /\ power' = "Stop"
               /\ rcc' = StopClockReset(rcc)
               /\ per' = [ per EXCEPT !.cwuf = FALSE ]
               /\ hist' = [ hist EXCEPT !.stopped = TRUE,
                                        !.stopSteps = @ \o << "halt" >>,
                                        !.wake = "none" ]
    /\ Goto("es_ret")
    /\ UNCHANGED << isr, calls, tok, csStack, McuInitialized,
                    SystemWakeupTimeCalibrated, primask, timer, halStatus,
                    maskStop, maskExit >>
    /\ UNCHANGED << battery, USE_FULL_ASSERT, faults >>

\* return of LpmEnterStopMode
ES_Return ==
    /\ At("es_ret")
    /\ hist' = [ hist EXCEPT !.stopSteps = << >>, !.wake = "none" ]
    /\ Return
    /\ UNCHANGED << base, McuInitialized, SystemWakeupTimeCalibrated, primask,
                    rcc, per, timer, halStatus, maskStop, maskExit >>

(* ---------------- Power-Mode Sequencer: LpmExitStopMode --------------- *)

\* CRITICAL_SECTION_BEGIN( ) of LpmExitStopMode, on its local mask.
XS_Begin ==
    /\ At("xs_begin")
    /\ maskExit' = BoardCriticalSectionBegin(primask)[1]
    /\ primask' = BoardCriticalSectionBegin(primask)[2]
    /\ hist' = [ hist EXCEPT !.xsBefore = primask, !.xsEntry = Snap,
                             !.xsRepeat = hist.afterXs ]
    /\ Goto("xs_init")
    /\ UNCHANGED << base, McuInitialized, SystemWakeupTimeCalibrated, rcc, per,
                    timer, halStatus, maskStop >>

\* an LpmExitStopMode that rebuilds nothing
XS_Init_Skipped ==
    /\ At("xs_init")
    /\ Goto("xs_end")
    /\ UNCHANGED data

\* BoardInitMcu( )
XS_Init ==
    /\ At("xs_init")
    /\ CallFn("bim_entry", "xs_end")
    /\ UNCHANGED data

\* CRITICAL_SECTION_END( ) of LpmExitStopMode
XS_End ==
    /\ At("xs_end")
    /\ primask' = BoardCriticalSectionEnd(maskExit)
    /\ Goto("xs_ret")
    /\ UNCHANGED << base, McuInitialized, SystemWakeupTimeCalibrated, rcc, per,
                    timer, halStatus, maskStop, maskExit, hist >>

\* return of LpmExitStopMode
XS_Return ==
    /\ At("xs_ret")
    /\ hist' = [ hist EXCEPT !.stopOpen = FALSE,
                             !.stopCycles = IF hist.stopOpen THEN @ + 1 ELSE @,
                             !.xsEntry = SnapReset,
                             !.xsRepeat = FALSE,
                             !.afterXs = stack = << "idle" >> ]
    /\ Return
    /\ UNCHANGED << base, McuInitialized, SystemWakeupTimeCalibrated, primask,
                    rcc, per, timer, halStatus, maskStop, maskExit >>

(* ---------------- Power-Mode Sequencer: LpmEnterSleepMode ------------- *)

\* a Sleep entry that stops the oscillators as Stop does
SL_Enter_StopsClocks ==
    /\ At("sl_enter")
    /\ \E pending \in BOOLEAN :
          /\ power' = IF pending THEN "Run" ELSE "Sleep"
          /\ hist' = [ hist EXCEPT !.slEntry = Snap,
                          !.wake = IF pending THEN "pending" ELSE "none" ]
    /\ rcc' = StopClockReset(rcc)
    /\ Goto("sl_ret")
    /\ UNCHANGED << isr, calls, tok, csStack, McuInitialized,
                    SystemWakeupTimeCalibrated, primask, per, timer,
                    halStatus, maskStop, maskExit >>
    /\ UNCHANGED << battery, USE_FULL_ASSERT, faults >>

\* HAL_PWR_EnterSLEEPMode( PWR_MAINREGULATOR_ON, PWR_SLEEPENTRY_WFI ): only
\* the core halts, until any interrupt; a pending one makes WFI fall through.
SL_Enter ==
    /\ At("sl_enter")
    /\ \E pending \in BOOLEAN :
          /\ power' = IF pending THEN "Run" ELSE "Sleep"
          /\ hist' = [ hist EXCEPT !.slEntry = Snap,
                          !.wake = IF pending THEN "pending" ELSE "none" ]
    /\ Goto("sl_ret")
    /\ UNCHANGED << isr, calls, tok, csStack, McuInitialized,
                    SystemWakeupTimeCalibrated, primask, rcc, per, timer,
                    halStatus, maskStop, maskExit >>
    /\ UNCHANGED << battery, USE_FULL_ASSERT, faults >>

\* return of LpmEnterSleepMode
SL_Return ==
    /\ At("sl_ret")
    /\ hist' = [ hist EXCEPT !.slEntry = SnapReset, !.wake = "none" ]
    /\ Return
    /\ UNCHANGED << base, McuInitialized, SystemWakeupTimeCalibrated, primask,
                    rcc, per, timer, halStatus, maskStop, maskExit >>

(* ------------------------- BoardLowPowerHandler ----------------------- *)

\* a low-power handler that does not mask the interrupts
LPH_Disable_Forgotten ==
    /\ At("lph_disable")
    /\ hist' = [ hist EXCEPT !.lphOpen = TRUE, !.lowPower = "none" ]
    /\ Goto("lph_call")
    /\ UNCHANGED << base, McuInitialized, SystemWakeupTimeCalibrated, primask,
                    rcc, per, timer, halStatus, maskStop, maskExit >>

\* __disable_irq( )
LPH_Disable ==
    /\ At("lph_disable")
    /\ primask' = IrqDisabled
    /\ hist' = [ hist EXCEPT !.lphOpen = TRUE, !.lowPower = "none" ]
    /\ Goto("lph_call")
    /\ UNCHANGED << base, McuInitialized, SystemWakeupTimeCalibrated, rcc, per,
                    timer, halStatus, maskStop, maskExit >>

\* LpmEnterLowPower( )
LPH_Call ==
    /\ At("lph_call")
    /\ CallFn("lel_entry", "lph_enable")
    /\ UNCHANGED data

\* __enable_irq( ); return.
LPH_Enable ==
    /\ At("lph_enable")
    /\ primask' = IrqEnabled
    /\ hist' = [ hist EXCEPT !.lphOpen = FALSE, !.lowPower = "none",
                   !.csForced = [ i \in DOMAIN hist.csForced |-> TRUE ] ]
    /\ Return
    /\ UNCHANGED << base, McuInitialized, SystemWakeupTimeCalibrated, rcc, per,
                    timer, halStatus, maskStop, maskExit >>

\* LpmEnterLowPower: the low-power policy enters Sleep, or enters Stop and,
\* once the halt has returned, runs LpmExitStopMode.
LEL_Entry ==
    /\ At("lel_entry")
    /\ \/ /\ CallFn("sl_enter", "lel_ret")
          /\ hist' = [ hist EXCEPT !.lowPower = "sleep" ]
       \/ /\ CallFn("es_begin", "lel_exit")
          /\ hist' = [ hist EXCEPT !.lowPower = "stop" ]
    /\ UNCHANGED << base, McuInitialized, SystemWakeupTimeCalibrated, primask,
                    rcc, per, timer, halStatus, maskStop, maskExit >>

LEL_Exit ==
    /\ At("lel_exit")
    /\ CallFn("xs_begin", "lel_ret")
    /\ UNCHANGED data

LEL_Return ==
    /\ At("lel_ret")
    /\ Return
    /\ UNCHANGED data

(* --------------------------- battery level ---------------------------- *)

\* values of uint16_t, and the conversions to the unsigned types
Uint16 == 0 .. 2^16 - 1

ToUint16(x) == x % 2^16

ToUint8(x) == x % 2^8

\* x is below 2^31, the range of a 32-bit int
FitsInt(x) == x \div 2^16 < 2^15

\* a product of two non-negative int operands, as a 32-bit int holds it: a
\* product from 2^31 up wraps to the negative range
IntProduct(a, b) ==
    LET m == a * b
    IN  IF FitsInt(m) THEN m ELSE (((m - 2^30) - 2^30) - 2^30) - 2^30

\* quotient of two int operands, truncated towards zero
IntQuotient(a, b) == IF a >= 0 THEN a \div b ELSE -((-a) \div b)

\* BoardBatteryMeasureVolage with a non-zero reading: the uint32_t quotient
\* ADC_VREF_BANDGAP * ADC_MAX_VALUE / vref.
MeasuredQuotient(vref, adcMax) == (ADC_VREF_BANDGAP * adcMax) \div vref

\* BoardBatteryMeasureVolage: the quotient returned as uint16_t.
BoardBatteryMeasureVolage(vref, adcMax) == ToUint16(MeasuredQuotient(vref, adcMax))

\* a level computation that forgets the offset of the interpolation
BoardGetBatteryLevel_NoOffset(v, source) ==
    IF source = "USB_POWER" THEN 0
    ELSE IF v >= BATTERY_MAX_LEVEL THEN 254
    ELSE IF v > BATTERY_MIN_LEVEL /\ v < BATTERY_MAX_LEVEL
         THEN ToUint8(IntQuotient(IntProduct(253, v - BATTERY_MIN_LEVEL),
                                  BATTERY_MAX_LEVEL - BATTERY_MIN_LEVEL))
    ELSE IF v > BATTERY_SHUTDOWN_LEVEL /\ v <= BATTERY_MIN_LEVEL THEN 1
    ELSE 255

\* BoardGetBatteryLevel, after the measurement: the uint8_t level for the
\* voltage v held in BatteryVoltage and the power source.
BoardGetBatteryLevel(v, source) ==
    IF source = "USB_POWER" THEN 0
    ELSE IF v >= BATTERY_MAX_LEVEL THEN 254
    ELSE IF v > BATTERY_MIN_LEVEL /\ v < BATTERY_MAX_LEVEL
         THEN ToUint8(IntQuotient(IntProduct(253, v - BATTERY_MIN_LEVEL),
                                  BATTERY_MAX_LEVEL - BATTERY_MIN_LEVEL) + 1)
    ELSE IF v > BATTERY_SHUTDOWN_LEVEL /\ v <= BATTERY_MIN_LEVEL THEN 1
    ELSE 255

\* BoardGetBatteryLevel: BatteryVoltage = BoardBatteryMeasureVolage( );
\* A reading of zero divides by zero: the core either faults or, with the
\* divide-by-zero trap off, yields a quotient of zero.
BGL_Measure ==
    /\ bat.pc = "idle"
    /\ IF bat.vref = 0
       THEN \/ /\ bat' = [ bat EXCEPT !.pc = "fault" ]
               /\ UNCHANGED BatteryVoltage
            \/ /\ bat' = [ bat EXCEPT !.pc = "level" ]
               /\ BatteryVoltage' = 0
       ELSE /\ bat' = [ bat EXCEPT !.pc = "level" ]
            /\ BatteryVoltage' = BoardBatteryMeasureVolage(bat.vref, bat.adcMax)
    /\ UNCHANGED board

\* BoardGetBatteryLevel: the if / else-if chain and the return.
BGL_Level ==
    /\ bat.pc = "level"
    /\ bat' = [ bat EXCEPT
                 !.pc = "done",
                 !.batteryLevel =
                     BoardGetBatteryLevel(BatteryVoltage, GetBoardPowerSource) ]
    /\ UNCHANGED << board, BatteryVoltage >>

(* ----------------------------- application ---------------------------- *)

\* The application, between two operations, calls one entry point of the board.
ApiCall(entry) ==
    /\ At("idle")
    /\ calls < MaxCalls
    /\ calls' = calls + 1
    /\ CallFn(entry, "idle")
    /\ hist' = [ hist EXCEPT !.afterXs = @ /\ entry = "xs_begin" ]
    /\ UNCHANGED << McuInitialized, SystemWakeupTimeCalibrated, primask, isr,
                    rcc, per, timer, power, halStatus, maskStop, maskExit, tok,
                    csStack >>
    /\ UNCHANGED << battery, USE_FULL_ASSERT, faults >>

CallBoardInitMcu == ApiCall("bim_entry")

CallLpmEnterStopMode == ApiCall("es_begin")

CallLpmExitStopMode == ApiCall("xs_begin")

CallLpmEnterSleepMode == ApiCall("sl_enter")

CallBoardLowPowerHandler == ApiCall("lph_disable")

CallBoardResetMcu == ApiCall("brm_begin")

CallBoardDeInitMcu == ApiCall("bdm_adc")

\* A test harness calls the two static functions directly.
CallCalibrateSystemWakeupTime == ApiCall("cal_entry")

CallSystemClockReConfig == ApiCall("rc_entry")

\* An interrupt handler of the application, taken while
\* CalibrateSystemWakeupTime runs with the calibration flag still clear,
\* calls BoardInitMcu and returns to the interrupted statement.
IrqBoardInitMcu ==
    /\ Running
    /\ pc \in { "cal_timer_init", "cal_timer_set", "cal_timer_start",
                "cal_wait" }
    /\ ~SystemWakeupTimeCalibrated
    /\ primask = IrqEnabled
    /\ pc \notin { stack[i] : i \in DOMAIN stack }
    /\ calls < MaxCalls
    /\ calls' = calls + 1
    /\ CallFn("bim_entry", pc)
    /\ UNCHANGED << McuInitialized, SystemWakeupTimeCalibrated, primask, isr,
                    rcc, per, timer, power, halStatus, maskStop, maskExit, tok,
                    csStack, hist >>
    /\ UNCHANGED << battery, USE_FULL_ASSERT, faults >>

\* The application opens a critical section on one of its tokens:
\* BoardCriticalSectionBegin( &token ).
AppBegin ==
    /\ At("idle")
    /\ Len(csStack) < MaxNest
    /\ calls < MaxCalls
    /\ calls' = calls + 1
    /\ \E t \in Tokens :
          /\ tok' = [ tok EXCEPT ![t] = BoardCriticalSectionBegin(primask)[1] ]
          /\ csStack' = << t >> \o csStack
          /\ hist' = [ hist EXCEPT
                !.afterXs = FALSE,
                !.csBefore = << primask >> \o @,
                !.csForced = << FALSE >> \o @,
                !.csClobbered = << FALSE >> \o
                    [ i \in DOMAIN csStack |-> @[i] \/ csStack[i] = t ] ]
    /\ primask' = BoardCriticalSectionBegin(primask)[2]
    /\ UNCHANGED << pc, stack, McuInitialized, SystemWakeupTimeCalibrated, isr,
                    rcc, per, timer, power, halStatus, maskStop, maskExit >>
    /\ UNCHANGED << battery, USE_FULL_ASSERT, faults >>

\* The application closes its innermost critical section with the token it
\* opened it with: BoardCriticalSectionEnd( &token ).
AppEnd ==
    /\ At("idle")
    /\ csStack # << >>
    /\ primask' = BoardCriticalSectionEnd(tok[Head(csStack)])
    /\ csStack' = Tail(csStack)
    /\ hist' = [ hist EXCEPT
          !.afterXs = FALSE,
          !.csBefore = Tail(@), !.csForced = Tail(@), !.csClobbered = Tail(@),
          !.pairBefore = Head(hist.csBefore),
          !.pairAfter = BoardCriticalSectionEnd(tok[Head(csStack)]),
          !.pairClobbered = Head(hist.csClobbered),
          !.pairForced = Head(hist.csForced),
          !.pairDepth = Len(csStack),
          !.pairsSeen = IF Head(hist.csClobbered) \/ Head(hist.csForced)
                        THEN @ ELSE @ \cup { Head(hist.csBefore) } ]
    /\ UNCHANGED << pc, stack, McuInitialized, SystemWakeupTimeCalibrated, isr,
                    rcc, per, timer, power, halStatus, maskStop, maskExit, tok,
                    calls >>
    /\ UNCHANGED << battery, USE_FULL_ASSERT, faults >>

(* --------------------------- specifications --------------------------- *)

Program ==
    \/ SCC_Entry \/ SCC_OscConfig \/ SCC_OscCheck \/ SCC_ClockConfig
    \/ SCC_ClockCheck \/ SCC_PeriphConfig \/ SCC_PeriphCheck \/ SCC_SysTick
    \/ assert_failed
    \/ RC_Entry \/ RC_WaitVos \/ RC_HseOn \/ RC_WaitHse \/ RC_PllConfig
    \/ RC_PllEnable \/ RC_WaitPll \/ RC_SelectPll \/ RC_WaitSws \/ RC_Return
    \/ CAL_Entry \/ CAL_TimerInit \/ CAL_TimerSetValue \/ CAL_TimerStart
    \/ CAL_Wait \/ CAL_Return
    \/ CB_RtcSetMcuWakeUpTime \/ CB_SetCalibrated
    \/ BIM_Entry \/ BIM_HalInit \/ BIM_Uart \/ BIM_Rtc \/ BIM_Leds
    \/ BIM_UnusedIo \/ BIM_OffMode \/ BIM_Adc \/ BIM_Spi \/ BIM_RadioIo
    \/ BIM_Check \/ BIM_SetInitialized \/ BIM_Dbg \/ BIM_Tcxo \/ BIM_Calibrate
    \/ BIM_Wdt \/ BIM_Return
    \/ BRM_Begin \/ BRM_Reset
    \/ BDM_Adc \/ BDM_Radio \/ BDM_Pins
    \/ ES_Begin \/ ES_DeInit \/ ES_DisablePvd \/ ES_ClearWakeFlag
    \/ ES_UltraLowPower \/ ES_FastWakeUp \/ ES_End \/ ES_Halt \/ ES_Return
    \/ XS_Begin \/ XS_Init \/ XS_End \/ XS_Return
    \/ SL_Enter \/ SL_Return
    \/ LPH_Disable \/ LPH_Call \/ LPH_Enable
    \/ LEL_Entry \/ LEL_Exit \/ LEL_Return

Hardware ==
    \/ HwVosReady \/ HwHseReady \/ HwPllLock \/ HwClockSwitch \/ HwWake
    \/ TimerIrq

Application ==
    \/ CallBoardInitMcu \/ CallLpmEnterStopMode \/ CallLpmExitStopMode
    \/ CallLpmEnterSleepMode \/ CallBoardLowPowerHandler
    \/ CallBoardResetMcu \/ CallBoardDeInitMcu
    \/ AppBegin \/ AppEnd

Harness ==
    \/ CallCalibrateSystemWakeupTime \/ CallSystemClockReConfig

Next == Program \/ Hardware \/ Application

\* The board as the application drives it through its public entry points.
Spec == Init /\ [][Next]_vars

NextUnit == Program \/ Hardware \/ Application \/ Harness

\* The same, with the two static functions also called directly.
SpecUnit == Init /\ [][NextUnit]_vars

\* The board as the application drives it, under fair scheduling: the core
\* executes the next instruction of the running context whenever there is
\* one, and each ready flag the resume sequence polls is eventually set by the
\* hardware once its condition is pending.
SpecFair ==
    /\ Spec
    /\ WF_vars(Program)
    /\ WF_vars(HwVosReady)
    /\ WF_vars(HwHseReady)
    /\ WF_vars(HwPllLock)
    /\ WF_vars(HwClockSwitch)

NextReentrant == Program \/ Hardware \/ Application \/ IrqBoardInitMcu

\* The board as the application drives it, one of whose interrupt handlers
\* calls BoardInitMcu while the calibration is in progress.
SpecReentrant == Init /\ [][NextReentrant]_vars

\* One BoardGetBatteryLevel call for every ADC reading and both builds.
InitBattery ==
    /\ InitBoard
    /\ BatteryVoltage = BATTERY_MAX_LEVEL
    /\ bat \in { [ BatReset EXCEPT !.vref = r, !.adcMax = m ] :
                    r \in Uint16, m \in { ADC_MAX_VALUE, ADC_MAX_VALUE_ENCODER } }

NextBattery == BGL_Measure \/ BGL_Level

SpecBattery == InitBattery /\ [][NextBattery]_vars

(* =============================== claims =============================== *)

\* the labels of a sequence of return labels
Labels(st) == { st[i] : i \in DOMAIN st }

\* C1 (state part): the cold clock sequence, the calibration and the setting
\* of the lifecycle flag each happen at most once, and exactly once by the time
\* any BoardInitMcu call returns; the first call takes the cold branch and
\* every later call the resume branch.
SingleColdBootState ==
    /\ hist.coldRuns <= 1
    /\ hist.calCalls <= 1
    /\ hist.timerStarts <= 1
    /\ hist.latencyRecs <= 1
    /\ hist.flagSets <= 1
    /\ McuInitialized <=> hist.flagSets = 1
    /\ hist.path = "cold" => hist.initCalls = 1
    /\ hist.path = "resume" =>
          /\ hist.initCalls > 1
          /\ hist.coldRuns = 1
          /\ pc # "rc_entry" => hist.resumeRuns = hist.initCalls - 1
    /\ pc = "bim_ret" =>
          /\ McuInitialized
          /\ hist.coldRuns = 1
          /\ hist.timerStarts = 1
          /\ hist.latencyRecs = 1

\* C1: single cold boot.  Within a power cycle, over any number of
\* BoardInitMcu calls interleaved with stop/wake cycles, the cold sequence and
\* the calibration run exactly once, the lifecycle flag is set once and never
\* reverts (only the system reset of BoardResetMcu, which starts the next
\* cycle, clears it), and every call after the first runs the resume
\* sequence.
SingleColdBoot ==
    [][ /\ (McuInitialized /\ ~McuInitialized') => pc = "brm_reset"
        /\ SingleColdBootState' ]_vars

\* C1 witness: a third BoardInitMcu call returns after a real stop/wake cycle.
SingleColdBootWitness ==
    /\ pc = "bim_ret"
    /\ hist.initCalls >= 3
    /\ hist.stopCycles >= 1
    /\ hist.stopped

\* C2: ordering of the resume sequence.  The PLL is configured and enabled
\* only after HSERDY has been read set, PLL is selected as system clock only
\* after PLLRDY has been read set, and SW never selects an unlocked PLL.
ResumeOrdering ==
    /\ pc \in { "rc_pll_cfg", "rc_pll_en" } =>
          "hse" \in hist.seen /\ rcc.hseRdy
    /\ pc = "rc_sysclk" => "pll" \in hist.seen /\ rcc.pllRdy
    /\ hist.pllEnObs # "no"
    /\ hist.swObs # "no"
    /\ rcc.sw = "PLL" => rcc.pllRdy

\* C2 witness: a resume run that followed a real Stop has selected the PLL.
ResumeOrderingWitness ==
    /\ pc = "rc_ret"
    /\ hist.stopped
    /\ hist.pllEnObs = "yes"
    /\ hist.swObs = "yes"

\* C3 as stated: ordering of the cold sequence.  HAL_RCC_ClockConfig executes
\* only after HAL_RCC_OscConfig returned HAL_OK, hence with the main
\* oscillator ready and the PLL locked; when the bring-up fails it never
\* executes.  (Refuted by the build without USE_FULL_ASSERT.)
ColdOrdering ==
    /\ pc = "scc_clk" =>
          halStatus = "HAL_OK" /\ rcc.hseRdy /\ rcc.pllRdy
    /\ hist.clkCfgAfter \in { "none", "HAL_OK" }
    /\ hist.trapAt = "osc" =>
          hist.clkCfgAfter = "none" /\ rcc.sw # "PLL" /\ rcc.sws # "PLL"

\* C4 as stated: a failed status-checked cold step is fatal.  Once a step has
\* reported a status other than HAL_OK the context is in assert_failed for
\* ever: no later cold step has run, BoardInitMcu has not returned and the
\* lifecycle flag is not set; no cold step runs after a failed one.  (Refuted
\* by the build without USE_FULL_ASSERT.)
ColdFailureFatal ==
    /\ pc \in { "scc_clk", "scc_periph", "scc_systick" } => halStatus = "HAL_OK"
    /\ hist.trapAt # "none" =>
          /\ pc \in { "assert_failed", "trap" }
          /\ "bim_uart" \in Labels(stack)
          /\ ~McuInitialized
          /\ hist.flagSets = 0
          /\ ~rcc.systick
          /\ ~per.uart /\ ~per.rtc /\ ~per.adc /\ ~per.wdt
          /\ hist.trapAt = "osc" => hist.clkCfgAfter = "none"
          /\ hist.trapAt \in { "osc", "clk" } => rcc.rtcClk = "none"

\* C5: idempotent resume.  Whenever SystemClockReConfig returns, the hardware
\* reports the PLL as system clock, with the main oscillator ready and the PLL
\* locked, however many times it has run and whether or not the core stopped.
IdempotentResume ==
    pc = "rc_ret" =>
        /\ rcc.sws = "PLL"
        /\ rcc.sw = "PLL"
        /\ rcc.hseRdy
        /\ rcc.pllRdy

\* C5 witness: a repeated run of the resume sequence, called directly,
\* returns, a Stop having reset the oscillators before one of the runs.
IdempotentResumeWitness ==
    /\ pc = "rc_ret"
    /\ Head(stack) = "idle"
    /\ hist.resumeRuns >= 2
    /\ hist.stopped

\* C6: calibration guard.  A CalibrateSystemWakeupTime call that finds the
\* flag set returns without any timer operation; over all calls the timer is
\* started at most once, exactly once when a call has returned, for 1000 units.
CalibrationGuard ==
    /\ hist.timerStarts <= 1
    /\ timer.armed => timer.value = CalibrationDuration
    /\ pc \in { "cal_timer_init", "cal_timer_set", "cal_timer_start", "cal_wait" }
          => ~hist.calEntryDone
    /\ pc = "cal_ret" =>
          /\ hist.timerStarts = 1
          /\ timer.value = CalibrationDuration
          /\ hist.calEntryDone => hist.timerOps = hist.calEntryOps

\* C6 witness: a second call, made when already calibrated, has returned.
CalibrationGuardWitness ==
    /\ pc = "cal_ret"
    /\ hist.calCalls >= 2
    /\ hist.calEntryDone

\* labels of LpmEnterStopMode between its Begin and its End
InEsSection ==
    \/ pc \in { "es_deinit", "es_pvd", "es_cwuf", "es_ulp", "es_fwu", "es_end" }
    \/ "es_pvd" \in Labels(stack)

\* the main context is between LpmExitStopMode's Begin and End
InXsSection == pc \in { "xs_init", "xs_end" } \/ "xs_end" \in Labels(stack)

\* C7: critical-section pairing.  A Begin/End pair on a token that nothing
\* rewrote and around a section in which nothing enabled the interrupts leaves
\* PRIMASK as it found it, whether enabled or disabled, and interrupts are
\* disabled between the two; the same for the pairs of LpmEnterStopMode and
\* LpmExitStopMode on their local masks.
CriticalSectionPairing ==
    /\ (hist.pairBefore # -1 /\ ~hist.pairClobbered /\ ~hist.pairForced)
          => hist.pairAfter = hist.pairBefore
    /\ \A i \in DOMAIN csStack : ~hist.csForced[i] => primask = IrqDisabled
    /\ InEsSection => primask = IrqDisabled
    /\ pc \in { "es_halt", "es_ret" } => primask = hist.esBefore
    /\ InXsSection => primask = IrqDisabled
    /\ pc = "xs_ret" => primask = hist.xsBefore

\* C7 witness: undisturbed pairs have ended that began with interrupts
\* enabled and that began with interrupts disabled.
CriticalSectionPairingWitness ==
    /\ hist.pairsSeen = { IrqEnabled, IrqDisabled }
    /\ hist.pairAfter = hist.pairBefore

\* an inner pair has ended inside the innermost open application section,
\* and nothing but Begin/End pairs ran inside that section
AfterInnerEnd ==
    /\ csStack # << >>
    /\ hist.pairDepth = Len(csStack) + 1
    /\ ~Head(hist.csForced)

\* C8 as stated: after the inner End of a nested pair, inside an outer
\* section that was entered with interrupts enabled, interrupts are enabled
\* again.
NestedInnerEndReenables ==
    (AfterInnerEnd /\ hist.csBefore[Len(csStack)] = IrqEnabled)
        => primask = IrqEnabled

\* C8 amended: nesting does not re-enable interrupts early.  After an inner
\* End interrupts are still disabled up to the outer End, also inside
\* BoardLowPowerHandler's masked region after LpmEnterStopMode's End; an
\* inner pair on the outer pair's token overwrites the restore value with
\* "disabled", so that the outer End leaves the interrupts disabled.
NestedSectionsStayMasked ==
    /\ AfterInnerEnd => primask = IrqDisabled
    /\ hist.lphOpen => primask = IrqDisabled
    /\ (hist.pairBefore # -1 /\ hist.pairClobbered /\ ~hist.pairForced)
          => hist.pairAfter = IrqDisabled

\* C8 witness: an outer pair entered with interrupts enabled has ended on a
\* token an inner pair rewrote, and interrupts are still disabled.
NestedSectionsStayMaskedWitness ==
    /\ csStack = << >>
    /\ hist.pairDepth = 1
    /\ hist.pairClobbered /\ ~hist.pairForced
    /\ hist.pairBefore = IrqEnabled
    /\ primask = IrqDisabled

\* C9: cold boot on the battery-powered board.  When the BoardInitMcu call
\* that found the lifecycle Uninitialized returns, the lifecycle flag and the
\* calibration flag are set, ADC, radio SPI and radio I/O are initialized and
\* the OFF mode is disabled.
ColdBootScenario ==
    (pc = "bim_ret" /\ hist.path = "cold") =>
        /\ McuInitialized
        /\ SystemWakeupTimeCalibrated
        /\ per.adc /\ per.spi /\ per.radioIo
        /\ per.offModeDisable

\* C9 witness: the cold BoardInitMcu call is about to return.
ColdBootScenarioWitness ==
    /\ pc = "bim_ret"
    /\ hist.path = "cold"
    /\ hist.latencyRecs = 1

\* C10: stop/wake.  When the LpmExitStopMode that follows an LpmEnterStopMode
\* entered in an Initialized state returns, the PLL is the system clock, the
\* radio SPI and I/O and the ADC are initialized and the lifecycle and
\* calibration flags are what they were at LpmEnterStopMode.
StopWakeScenario ==
    (pc = "xs_ret" /\ hist.stopOpen) =>
        /\ rcc.sws = "PLL"
        /\ per.adc /\ per.spi /\ per.radioIo
        /\ McuInitialized = hist.stopMcu
        /\ SystemWakeupTimeCalibrated = hist.stopCal

\* C10 witness: the second stop/wake cycle ends, the core having stopped.
StopWakeScenarioWitness ==
    /\ pc = "xs_ret"
    /\ hist.stopOpen
    /\ hist.stopped
    /\ hist.stopCycles >= 1

\* the steps recorded in a log
Done(log) == { log[i] : i \in DOMAIN log }

\* step a was recorded before step b
Before(log, a, b) ==
    \E i, j \in DOMAIN log : i < j /\ log[i] = a /\ log[j] = b

\* what LpmEnterStopMode does to prepare the halt
PeripheralTeardown == { "adc", "spi", "radioIo", "oscPins" }

PowerSteps == { "pvd", "cwuf", "ulp", "fwu" }

\* C11: teardown before halt.  In every LpmEnterStopMode run the ADC de-init,
\* the radio SPI and I/O de-init, the oscillator-pin reconfiguration, the PVD
\* disable, the wake-flag clear and the ultra-low-power and fast-wake-up
\* enables have all completed when the halt is issued; the core is never
\* halted in Stop with the ADC or the radio bus still initialized.
TeardownBeforeHalt ==
    /\ pc = "es_halt" =>
          /\ (PeripheralTeardown \cup PowerSteps) \subseteq Done(hist.stopSteps)
          /\ ~per.adc /\ ~per.spi /\ ~per.radioIo
          /\ per.oscPinsLp /\ per.pvdOff /\ per.cwuf /\ per.ulp /\ per.fwu
    /\ "halt" \in Done(hist.stopSteps) =>
          \A s \in PeripheralTeardown \cup PowerSteps :
              Before(hist.stopSteps, s, "halt")
    /\ power = "Stop" => ~per.adc /\ ~per.spi /\ ~per.radioIo

\* C11 witness: the core is in Stop, entered from an Initialized state in
\* which the ADC and the radio were up.
TeardownBeforeHaltWitness ==
    /\ power = "Stop"
    /\ hist.stopMcu
    /\ "halt" \in Done(hist.stopSteps)

\* C12 as stated: at the moment LpmEnterStopMode returns to its caller the
\* PLL is the system clock and the ADC and the radio bus are initialized.
RebuiltWhenStopReturns ==
    (pc = "es_ret" /\ power = "Run") =>
        /\ rcc.sws = "PLL"
        /\ per.adc /\ per.spi /\ per.radioIo

\* C12 amended: rebuild before the low-power handler returns.
\* LpmEnterStopMode itself returns with the ADC and the radio down and, when
\* the core really stopped, with MSI as system clock; the rebuild is the
\* LpmExitStopMode call that LpmEnterLowPower makes next, and it has
\* completed when LpmEnterLowPower, and so BoardLowPowerHandler, returns.
RebuiltWhenHandlerReturns ==
    /\ pc = "es_ret" =>
          /\ ~per.adc /\ ~per.spi /\ ~per.radioIo
          /\ hist.stopped => rcc.sws = "MSI"
    /\ (pc \in { "lel_ret", "lph_enable" } /\ hist.lowPower = "stop") =>
          /\ rcc.sws = "PLL"
          /\ per.adc /\ per.spi /\ per.radioIo
          /\ McuInitialized

\* C12 witness: BoardLowPowerHandler is about to return after a real Stop,
\* entered from an Initialized state.
RebuiltWhenHandlerReturnsWitness ==
    /\ pc = "lph_enable"
    /\ hist.lowPower = "stop"
    /\ hist.stopped
    /\ hist.stopCycles >= 1

\* C13 as stated: the PVD disable, the wake-flag clear and the two enables
\* run after LpmEnterStopMode's critical section has ended.
PowerStepsAfterSection ==
    \A s \in PowerSteps :
        s \in Done(hist.stopSteps) => Before(hist.stopSteps, "end", s)

\* C13 amended: extent of LpmEnterStopMode's critical section.  The
\* peripheral teardown and also the PVD disable, the wake-flag clear and the
\* ultra-low-power and fast-wake-up enables all run between the Begin and the
\* End, with interrupts disabled; only the halt follows the End, with PRIMASK
\* as the Begin found it.
StopSectionExtent ==
    /\ \A s \in PeripheralTeardown \cup PowerSteps :
          /\ s \in Done(hist.stopSteps) => Before(hist.stopSteps, "begin", s)
          /\ "end" \in Done(hist.stopSteps) => Before(hist.stopSteps, s, "end")
    /\ InEsSection =>
          /\ primask = IrqDisabled
          /\ "end" \notin Done(hist.stopSteps)
    /\ pc = "es_halt" =>
          /\ hist.stopSteps[Len(hist.stopSteps)] = "end"
          /\ primask = hist.esBefore
    /\ "halt" \in Done(hist.stopSteps) => Before(hist.stopSteps, "end", "halt")

\* C13 witness: the halt is about to be issued with interrupts enabled again,
\* the section having been entered with interrupts enabled.
StopSectionExtentWitness ==
    /\ pc = "es_halt"
    /\ hist.esBefore = IrqEnabled
    /\ primask = IrqEnabled
    /\ hist.stopMcu

\* what the resume branch of BoardInitMcu makes of the state it finds: the
\* PLL on HSE is the system clock, ADC, radio SPI, radio I/O and watchdog are
\* initialized, and nothing else differs.
ResumeEffect(s) ==
    [ s EXCEPT !.rcc = [ @ EXCEPT !.vosf = FALSE, !.hseOn = TRUE,
                                  !.hseRdy = TRUE, !.pllOn = TRUE,
                                  !.pllRdy = TRUE, !.sw = "PLL", !.sws = "PLL" ],
               !.per = [ @ EXCEPT !.adc = TRUE, !.spi = TRUE, !.radioIo = TRUE,
                                  !.wdt = TRUE ] ]

\* C14: LpmExitStopMode is the resume branch of BoardInitMcu inside a
\* critical section.  Entered Initialized, it leaves the state BoardInitMcu
\* leaves (no cold configuration, no calibration, no lifecycle write), runs
\* with interrupts disabled, restores PRIMASK on return, and a second call in
\* a row changes nothing.
ExitStopIsResume ==
    /\ (pc = "bim_ret" /\ hist.bimEntry.mcu) =>
          Snap = ResumeEffect(hist.bimEntry)
    /\ (pc = "xs_ret" /\ hist.xsEntry.mcu) =>
          /\ Snap = ResumeEffect(hist.xsEntry)
          /\ hist.path = "resume"
          /\ primask = hist.xsBefore
    /\ InXsSection => primask = IrqDisabled
    /\ (pc = "xs_ret" /\ hist.xsRepeat) => Snap = hist.xsEntry

\* C14 witness: the second of two LpmExitStopMode calls in a row returns.
ExitStopIsResumeWitness ==
    /\ pc = "xs_ret"
    /\ stack = << "idle" >>
    /\ hist.xsRepeat
    /\ hist.xsEntry.mcu

\* C15: power-mode transitions.  The core leaves Run only at the halt of
\* LpmEnterSleepMode or LpmEnterStopMode and comes back only by a wake-up
\* event; while it is halted the context stays at the return of the call that
\* halted it, and that call returns only after the halt has ended, by an
\* event or because one was already pending.
PowerModeTransitions ==
    [][ /\ (power = "Run" /\ power' # "Run") =>
              \/ pc = "es_halt" /\ power' = "Stop"
              \/ pc = "sl_enter" /\ power' = "Sleep"
        /\ (power # "Run" /\ power' # power) =>
              /\ power' = "Run"
              /\ hist.wake = "none"
              /\ hist'.wake = "event"
        /\ power # "Run" =>
              /\ pc \in { "es_ret", "sl_ret" }
              /\ pc' = pc
              /\ stack' = stack
        /\ (pc \in { "es_ret", "sl_ret" } /\ pc' # pc) =>
              /\ power = "Run"
              /\ hist.wake # "none"
              /\ pc' = Head(stack)
              /\ stack' = Tail(stack) ]_vars

\* C15 witness: LpmEnterStopMode is about to return after a Stop that a
\* wake-up event ended.
PowerModeTransitionsWitness ==
    /\ pc = "es_ret"
    /\ power = "Run"
    /\ hist.stopped
    /\ hist.wake = "event"

\* the steps of a BoardInitMcu call that finds the lifecycle flag clear
ColdSteps ==
    << "hal", "clock", "uart", "rtc", "leds", "unusedIo", "offMode", "adc",
       "spi", "radioIo", "set", "radioDbg", "tcxo", "calibrate", "wdt" >>

\* the steps of a BoardInitMcu call that finds it set
ResumeSteps == << "reclock", "adc", "spi", "radioIo", "wdt" >>

\* C16: per-call steps of BoardInitMcu.  Every call initializes the ADC, the
\* radio SPI, the radio I/O and, last, the watchdog (on the first call after
\* the calibration has completed); HAL and cold clock, console, RTC, LEDs,
\* unused pins, OFF-mode disable, debug pins, TCXO pin and calibration run
\* only in the call that found the lifecycle flag clear.
PerCallSteps ==
    LET expected == IF hist.bimEntry.mcu THEN ResumeSteps ELSE ColdSteps
    IN  /\ Len(hist.steps) <= Len(expected)
        /\ hist.steps = SubSeq(expected, 1, Len(hist.steps))
        /\ pc = "bim_ret" => hist.steps = expected
        /\ (pc = "bim_wdt" /\ ~hist.bimEntry.mcu) => SystemWakeupTimeCalibrated
        /\ (Done(hist.steps) \ Done(ResumeSteps)) # {} =>
              ~hist.bimEntry.mcu /\ hist.initCalls = 1

\* C16 witness: a call that found the lifecycle flag set returns after a real
\* Stop.
PerCallStepsWitness ==
    /\ pc = "bim_ret"
    /\ hist.bimEntry.mcu
    /\ hist.initCalls >= 2
    /\ hist.stopped
    /\ hist.steps = ResumeSteps

\* C17: calibration completion protocol.  CalibrateSystemWakeupTime returns
\* only with the flag set; the flag is set only by the second statement of
\* the timer callback, after the latency has been recorded, so the latency is
\* recorded whenever the flag is set, and at most once; the flag never
\* reverts within a power cycle (only the system reset of BoardResetMcu
\* clears it).
CalibrationProtocol ==
    [][ /\ (SystemWakeupTimeCalibrated /\ ~SystemWakeupTimeCalibrated')
              => pc = "brm_reset"
        /\ (~SystemWakeupTimeCalibrated /\ SystemWakeupTimeCalibrated') =>
              isr = "cb_flag" /\ hist.latencyRecs = 1
        /\ SystemWakeupTimeCalibrated' => hist'.latencyRecs = 1
        /\ hist'.latencyRecs <= 1
        /\ pc' = "cal_ret" => SystemWakeupTimeCalibrated' ]_vars

\* C17 witness: a call that found the flag clear returns.
CalibrationProtocolWitness ==
    /\ pc = "cal_ret"
    /\ ~hist.calEntryDone
    /\ SystemWakeupTimeCalibrated
    /\ hist.latencyRecs = 1

\* a step of the context at one of the four waits of SystemClockReConfig,
\* the polled flag not having the awaited value, stays at that wait
ResumeWaitsHold ==
    /\ (pc = "rc_wait_vos" /\ rcc.vosf) => pc' = "rc_wait_vos"
    /\ (pc = "rc_wait_hse" /\ ~rcc.hseRdy) => pc' = "rc_wait_hse"
    /\ (pc = "rc_wait_pll" /\ ~rcc.pllRdy) => pc' = "rc_wait_pll"
    /\ (pc = "rc_wait_sws" /\ rcc.sws # "PLL") => pc' = "rc_wait_sws"

\* C18: the resume sequence has no timeout.  A wait is left only once its
\* flag has the awaited value, so the sequence returns only after all four
\* have held; and when the hardware eventually sets each flag, every run of
\* the sequence returns.
ResumeTermination ==
    /\ [][ResumeWaitsHold]_vars
    /\ [](pc = "rc_ret" => hist.seen = { "vos", "hse", "pll", "sws" })
    /\ (pc = "rc_entry") ~> (pc = "rc_ret")

\* C18 witness: a run of the sequence that followed a real Stop returns.
ResumeTerminationWitness ==
    /\ pc = "rc_ret"
    /\ hist.stopped
    /\ hist.resumeRuns >= 2
    /\ hist.seen = { "vos", "hse", "pll", "sws" }

\* the clock states the hardware reaches on its own from r: the regulator
\* settles, an enabled oscillator or PLL becomes ready, a requested clock
\* switch completes
HwProgress(r) ==
    { [ r EXCEPT !.vosf = v, !.hseRdy = h, !.pllRdy = p, !.sws = w ] :
        v \in { r.vosf, FALSE }, h \in { r.hseRdy, r.hseOn },
        p \in { r.pllRdy, r.pllOn }, w \in { r.sws, r.sw } }

\* the states that differ from s by what the hardware does on its own
Settled(s) == { [ s EXCEPT !.rcc = r ] : r \in HwProgress(s.rcc) }

ColdLabels ==
    { "bim_hal_init", "bim_uart", "bim_rtc", "bim_leds", "bim_unused",
      "bim_offmode", "bim_set", "bim_dbg", "bim_tcxo", "bim_cal" }

\* C20: no calibration wait with interrupts masked.  While the busy-wait of
\* CalibrateSystemWakeupTime runs with the flag clear, interrupts are
\* enabled; the first-boot statements of BoardInitMcu never run inside
\* LpmExitStopMode's critical section or BoardLowPowerHandler's masked region.
NoMaskedCalibrationWait ==
    /\ (pc = "cal_wait" /\ ~SystemWakeupTimeCalibrated) => primask = IrqEnabled
    /\ pc \in ColdLabels => ~InXsSection /\ ~hist.lphOpen

\* the main context is inside BoardLowPowerHandler's masked region: no
\* handler runs and interrupts are disabled
MaskedInHandler == hist.lphOpen => (primask = IrqDisabled /\ isr = "none")

\* C21: interrupt masking across a low-power cycle entered through
\* BoardLowPowerHandler.  From its __disable_irq to its __enable_irq, through
\* the teardown, the End of LpmEnterStopMode's section, the halt, the wake-up
\* and the rebuild, interrupts stay disabled and no handler runs; its return
\* leaves interrupts enabled whatever PRIMASK was on entry.
HandlerMasksLowPowerCycle ==
    [][ /\ MaskedInHandler
        /\ MaskedInHandler'
        /\ (pc = "lph_enable" /\ pc' # pc) =>
              /\ primask' = IrqEnabled
              /\ ~hist'.lphOpen ]_vars

\* C21 witness: the handler, called inside an application critical section
\* (interrupts disabled on entry), has returned after a real Stop and a
\* rebuild, and interrupts are enabled.
HandlerMasksLowPowerCycleWitness ==
    /\ pc = "idle"
    /\ csStack # << >>
    /\ Head(hist.csForced)
    /\ hist.stopped
    /\ hist.stopCycles >= 1
    /\ primask = IrqEnabled

\* labels of CalibrateSystemWakeupTime
CalLabels ==
    { "cal_entry", "cal_timer_init", "cal_timer_set", "cal_timer_start",
      "cal_wait", "cal_ret" }

\* the calibration has been started and has not completed
Calibrating ==
    ~SystemWakeupTimeCalibrated /\ (pc \in CalLabels \/ timer.armed \/ isr # "none")

\* labels of SystemClockConfig
SccLabels ==
    { "scc_entry", "scc_osc", "scc_osc_chk", "scc_clk", "scc_clk_chk",
      "scc_periph", "scc_periph_chk", "scc_systick" }

\* the main context runs a BoardInitMcu that a handler called during the
\* calibration
InReentry == \E l \in CalLabels : l \in Labels(stack)

\* C22: flag consistency.  Calibrated implies Initialized; Initialized implies
\* that the cold clock sequence and the RTC init have completed (and, where
\* the build traps on a failed step, succeeded), and the lifecycle flag is
\* written only once the ADC, the radio SPI and the radio I/O have been
\* initialized by the same call; the calibration starts only with the
\* lifecycle flag set, so that a BoardInitMcu entered from a handler while the
\* calibration is in progress finds the flag set, takes the resume branch and
\* runs no statement of the cold sequence, of the first-boot block or of the
\* calibration: no second cold sequence and no second timer start.
FlagConsistency ==
    [][ /\ SystemWakeupTimeCalibrated' => McuInitialized'
        /\ McuInitialized' =>
              /\ hist'.coldRuns = 1
              /\ rcc'.systick
              /\ USE_FULL_ASSERT => rcc'.rtcClk = "LSE"
              /\ per'.rtc
        /\ (~McuInitialized /\ McuInitialized') =>
              /\ { "clock", "rtc", "adc", "spi", "radioIo" }
                     \subseteq Done(hist.steps)
              /\ USE_FULL_ASSERT => rcc.sws = "PLL"
              /\ per.adc /\ per.spi /\ per.radioIo
        /\ Calibrating' => McuInitialized'
        /\ hist'.calCalls >= 1 => McuInitialized'
        /\ hist'.coldRuns <= 1 /\ hist'.timerStarts <= 1
        /\ InReentry' =>
              /\ McuInitialized'
              /\ pc' \notin SccLabels \cup ColdLabels \cup CalLabels
              /\ pc' # "bim_entry" => hist'.path = "resume"
              /\ hist'.coldRuns = 1 /\ hist'.calCalls = 1 ]_vars

\* C22 witness: a BoardInitMcu that a handler entered during the calibration
\* wait is about to return, having taken the resume branch, the calibration
\* still in progress with its timer armed.
FlagConsistencyWitness ==
    /\ pc = "bim_ret"
    /\ "cal_wait" \in Labels(stack)
    /\ hist.path = "resume"
    /\ hist.initCalls = 2
    /\ timer.armed
    /\ ~SystemWakeupTimeCalibrated
    /\ McuInitialized

\* the level the mapping gives for a measured voltage of v millivolts
MappedLevel(v) ==
    IF v >= 3000 THEN 254
    ELSE IF v > 2400 THEN 1 + (253 * (v - 2400)) \div 600
    ELSE IF v > 2300 THEN 1
    ELSE 255

\* C23: battery level mapping.  For the measured voltage v the level is 254
\* from 3000 mV, 1 + floor(253 (v - 2400) / 600), within 1..253, between 2400
\* and 3000, 1 from 2301 to 2400 and 255 up to 2300; it is never 0 and the
\* product fits a 32-bit int.  For a non-zero reading the measured voltage is
\* floor(1224 * ADC_MAX_VALUE / vref) modulo 2^16, equal to the quotient
\* exactly when the quotient is below 65536.
BatteryLevelMapping ==
    /\ BatteryVoltage \in Uint16
    /\ bat.pc = "done" =>
          /\ bat.batteryLevel = MappedLevel(BatteryVoltage)
          /\ bat.batteryLevel # 0
          /\ (BatteryVoltage > 2400 /\ BatteryVoltage < 3000) =>
                /\ bat.batteryLevel \in 1 .. 253
                /\ FitsInt(253 * (BatteryVoltage - 2400))
    /\ (bat.pc \in { "level", "done" } /\ bat.vref # 0) =>
          LET q == (1224 * bat.adcMax) \div bat.vref
          IN  /\ BatteryVoltage = q % 65536
              /\ BatteryVoltage = q <=> q < 65536

\* C23 witness: a level strictly inside the interpolation range has been
\* returned.
BatteryLevelMappingWitness ==
    /\ bat.pc = "done"
    /\ BatteryVoltage > 2400 /\ BatteryVoltage < 3000
    /\ bat.batteryLevel > 1 /\ bat.batteryLevel < 253

====
